---- MODULE Spec2Model ----
(***************************************************************************)
(* Verification model of the detray Runge-Kutta-Nystrom stepper            *)
(* (core/include/detray/propagator/rk_stepper.ipp) and of the stepper      *)
(* state it works on (base_stepper::state).                                *)
(*                                                                         *)
(* Scalars.  The code computes in IEEE floating point.  The model computes *)
(* in fixed point: a scalar x is stored as the integer round(x * S), every *)
(* product and quotient of two scalars is rounded to the nearest multiple  *)
(* of 1/S, and sqrt is truncated.  Like the code, the model therefore has  *)
(* finite precision: results that are exact over the reals hold up to a    *)
(* few units of the last place.  Lengths are in mm (unit_constants::mm =   *)
(* 1), so a step size of 4 mm is the integer 4000.                         *)
(*                                                                         *)
(* Control.  rk_stepper::step is modelled statement by statement: pc is    *)
(* the position inside the call, and the locals of step (error_estimate,   *)
(* step_size_scaling, n_step_trials, the argument h of try_rk4) are        *)
(* variables.                                                              *)
(***************************************************************************)
EXTENDS Integers, Sequences, FiniteSets, TLC

\* ------------------------------------------------------------------------
\* Bounds of the model
\* ------------------------------------------------------------------------
\* Number of step() calls in one behaviour
MaxCalls == 2
\* Largest configured max_rk_step_trials
MaxTrialsCfg == 1

\* ------------------------------------------------------------------------
\* Scalar arithmetic
\* ------------------------------------------------------------------------
\* Fixed-point resolution of `scalar`
S == 1000

\* 1e-20, the floor of the error estimate: the smallest positive scalar
ErrFloor == 1

\* std::numeric_limits<scalar>::max()
ScalarMax == 1000000

Abs(x) == IF x < 0 THEN -x ELSE x

\* a / b rounded to the nearest integer, b > 0
RoundDiv(a, b) == (2 * a + b) \div (2 * b)

\* scalar product a * b
Mul(a, b) == RoundDiv(a * b, S)

\* scalar quotient a / b
Quot(a, b) == IF b > 0 THEN RoundDiv(a * S, b) ELSE RoundDiv((-a) * S, -b)

\* std::max, std::min as the standard library defines them
StdMax(a, b) == IF a < b THEN b ELSE a
StdMin(a, b) == IF b < a THEN b ELSE a

RECURSIVE SqrtIter(_, _, _)
SqrtIter(x, lo, hi) ==
    IF lo >= hi THEN lo
    ELSE LET mid == (lo + hi + 1) \div 2
         IN  IF mid * mid <= x THEN SqrtIter(x, mid, hi)
                               ELSE SqrtIter(x, lo, mid - 1)

\* floor of the square root of a natural number
ISqrt(x) == SqrtIter(x, 0, StdMin(x, 46340))

\* std::sqrt of a scalar
Sqrt(x) == ISqrt(x * S)

\* ------------------------------------------------------------------------
\* vector3 and matrices
\* ------------------------------------------------------------------------
Zero3 == <<0, 0, 0>>

VAdd(a, b) == <<a[1] + b[1], a[2] + b[2], a[3] + b[3]>>
VSub(a, b) == <<a[1] - b[1], a[2] - b[2], a[3] - b[3]>>
\* scalar * vector
VScale(s, a) == <<Mul(s, a[1]), Mul(s, a[2]), Mul(s, a[3])>>

\* vector::cross
Cross(a, b) == <<Mul(a[2], b[3]) - Mul(a[3], b[2]),
                 Mul(a[3], b[1]) - Mul(a[1], b[3]),
                 Mul(a[1], b[2]) - Mul(a[2], b[1])>>

\* getter::norm; a long vector is scaled down before squaring, so that the
\* squares stay inside the integers of the model checker
Norm(a) ==
    LET m == StdMax(StdMax(Abs(a[1]), Abs(a[2])), Abs(a[3]))
        q == (m \div 26000) + 1
        x == Abs(a[1]) \div q
        y == Abs(a[2]) \div q
        z == Abs(a[3]) \div q
    IN  q * ISqrt(x * x + y * y + z * z)

\* vector::normalize
Normalize(a) ==
    LET n == Norm(a)
    IN  <<RoundDiv(a[1] * S, n), RoundDiv(a[2] * S, n), RoundDiv(a[3] * S, n)>>

\* matrices are indexed from 0, as in the code: M[row][col].  The matrix
\* operators bind their arguments to a singleton set, which makes the model
\* checker evaluate each argument once instead of once per element.
Identity(n) == [i \in 0..(n - 1) |-> [j \in 0..(n - 1) |-> IF i = j THEN S ELSE 0]]
ZeroMat(n, m) == [i \in 0..(n - 1) |-> [j \in 0..(m - 1) |-> 0]]

MAdd(A, B) ==
    CHOOSE R \in {[i \in DOMAIN a |-> [j \in DOMAIN a[i] |-> a[i][j] + b[i][j]]] :
                     a \in {A}, b \in {B}} : TRUE

MScale(s, A) ==
    CHOOSE R \in {[i \in DOMAIN a |-> [j \in DOMAIN a[i] |-> Mul(t, a[i][j])]] :
                     a \in {A}, t \in {s}} : TRUE

RECURSIVE DotTo(_, _, _, _, _)
DotTo(A, B, i, j, k) ==
    IF k < 0 THEN 0 ELSE Mul(A[i][k], B[k][j]) + DotTo(A, B, i, j, k - 1)

\* matrix product A * B of two n x n matrices
MatMul(A, B, n) ==
    CHOOSE R \in {[i \in 0..(n - 1) |-> [j \in 0..(n - 1) |-> DotTo(a, b, i, j, n - 1)]] :
                     a \in {A}, b \in {B}} : TRUE

\* column c of a 3 x 3 matrix as a vector3
Col3(M, c) == <<M[0][c], M[1][c], M[2][c]>>

\* column_wise_op().cross(M, v): the cross product of every column with v
ColumnWiseCross(M, v) ==
    CHOOSE R \in {[i \in 0..2 |-> [j \in 0..2 |-> cols[j][i + 1]]] :
                     cols \in {[j \in 0..2 |-> Cross(Col3(M, j), v)]}} : TRUE

\* matrix_operator().set_block for a 3 x 3 block
SetBlock33(M, B, r, c) ==
    CHOOSE R \in {[i \in DOMAIN m |-> [j \in DOMAIN m[i] |->
                     IF i \in r..(r + 2) /\ j \in c..(c + 2)
                     THEN b[i - r][j - c] ELSE m[i][j]]] :
                     m \in {M}, b \in {B}} : TRUE

\* matrix_operator().set_block for a vector3 (3 x 1 block)
SetBlock31(M, v, r, c) ==
    CHOOSE R \in {[i \in DOMAIN m |-> [j \in DOMAIN m[i] |->
                     IF i \in r..(r + 2) /\ j = c
                     THEN w[i - r + 1] ELSE m[i][j]]] :
                     m \in {M}, w \in {v}} : TRUE

\* free parameter indices
e_free_pos0 == 0
e_free_dir0 == 4
e_free_size == 8
e_bound_size == 6

\* step::direction
e_forward == 1
e_backward == -1

\* ------------------------------------------------------------------------
\* Magnetic field
\* ------------------------------------------------------------------------
\* The fields a stepper is built with: no field, a constant field along z,
\* and a field along z whose strength grows with x.
Fields == {"zero", "const", "grad"}

\* _magnetic_field.get_field(pos, context)
get_field(f, pos) ==
    CASE f = "zero"  -> Zero3
      [] f = "const" -> <<0, 0, S>>
      [] f = "grad"  -> <<0, 0, S + Mul(S \div 2, pos[1])>>

\* ------------------------------------------------------------------------
\* Inputs
\* ------------------------------------------------------------------------
Qops == {0 - 400, 0}
Tolerances == {0, 1, 50, 500}
Cutoffs == {100}
NavDistances == {0 - 2000, 0, 4000}
AccuracyConstraints == {1500, ScalarMax}
StartDirs == {<<600, 0, 800>>}


\* ------------------------------------------------------------------------
\* State
\* ------------------------------------------------------------------------
VARIABLES
    magnetic_field,     \* rk_stepper::_magnetic_field
    track,              \* base_stepper::state::_track (pos, dir, qop, time)
    jac_transport,      \* state::_jac_transport, 8 x 8
    derivative,         \* state::_derivative, 8 x 1
    jac_to_global,      \* state::_jac_to_global, 8 x 6
    bound_covariance,   \* state::_bound_covariance, 6 x 6
    direction,          \* state::_direction
    constraint,         \* state::_constraint
    path_length,        \* state::_path_length
    step_size,          \* state::_step_size
    step_data,          \* rk_stepper::state::_step_data
    tolerance,          \* rk_stepper::state::_tolerance
    step_size_cutoff,   \* rk_stepper::state::_step_size_cutoff
    max_rk_step_trials, \* rk_stepper::state::_max_rk_step_trials
    navigation,         \* propagation._navigation
    pc,                 \* position inside rk_stepper::step
    error_estimate,     \* local of step
    step_size_scaling,  \* local of step
    n_step_trials,      \* local of step
    trial_h,            \* argument h of the latest try_rk4 call
    accepted,           \* result of the latest try_rk4 call
    ret,                \* value returned by the latest step call
    entry,              \* history: the stepper state at the latest call's entry
    hist,               \* history: what the latest call has done so far
    bound_ret,          \* value returned by the latest bound_state call
    bound_params,       \* propagation._stepping._bound_params
    prop,               \* the propagate() call: position in its loop, result
    actor_states,       \* the states of the actors of the chain
    isect,              \* the latest call of the plane intersector
    mat_builder,        \* material_builder: surfaces(), m_materials
    det,                \* the detector a volume is built into
    mat_call            \* the latest call on the material builder

vars == <<magnetic_field, track, jac_transport, derivative, jac_to_global,
          bound_covariance, direction, constraint, path_length, step_size,
          step_data, tolerance, step_size_cutoff, max_rk_step_trials,
          navigation, pc, error_estimate, step_size_scaling, n_step_trials,
          trial_h, accepted, ret, entry, hist, bound_ret, bound_params, prop,
          actor_states, isect, mat_builder, det, mat_call>>

\* what no statement of step() writes
config == <<magnetic_field, jac_to_global, bound_covariance, constraint,
            tolerance, step_size_cutoff, max_rk_step_trials, bound_ret,
            bound_params, prop, actor_states, isect, mat_builder, det,
            mat_call>>

\* the locals of step()
locals == <<error_estimate, step_size_scaling, n_step_trials, trial_h, accepted>>

\* no volume is being built
NoBuilder == [surfaces |-> <<>>, m_materials |-> <<>>]
NoDetector == [volumes |-> 0]
NoCall == [op |-> "none"]

\* the part of the stepper state a step is meant to advance
Snapshot == [track |-> track, path_length |-> path_length,
             jac_transport |-> jac_transport, derivative |-> derivative,
             direction |-> direction]

\* history of advance_jacobian before its first call
NoBlocks == [dFdT |-> ZeroMat(3, 3), dGdT |-> ZeroMat(3, 3), dFdL |-> Zero3,
             dGdL |-> Zero3, dk1dL |-> Zero3, dk2dL |-> Zero3,
             dk3dL |-> Zero3, dk4dL |-> Zero3, dir |-> Zero3, h |-> 0]

\* increments: the transport matrices of all calls so far, oldest first;
\* blocks: what the latest advance_jacobian computed
NoHist == [calls |-> 0, trials |-> 0, rejected |-> 0, samples |-> 0,
           adv_derivative |-> 0, adv_track |-> 0, adv_jacobian |-> 0,
           policy |-> 0, aborts |-> 0, clamped |-> FALSE, first_h |-> 0,
           applied_h |-> 0, accepted_h |-> 0, increments |-> <<>>,
           blocks |-> NoBlocks]

\* ------------------------------------------------------------------------
\* Collaborators whose code is outside the stepper
\* ------------------------------------------------------------------------
\* constrained_step::size(direction): the tightest constraint, signed by the
\* stepping direction
constraint_size(c, dir) ==
    dir * StdMin(StdMin(c.accuracy, c.actor), StdMin(c.aborter, c.user))

\* navigation(): the distance to the next candidate
navigation_distance(nav) == nav.dist

\* navigation.abort(): the status becomes abort; returns the heartbeat, false
navigation_abort(nav) == [nav EXCEPT !.status = "abort", !.heartbeat = FALSE]

\* policy_t{}(policy_state, propagation): tells the navigator how far to
\* trust its candidates after the step
navigation_policy(nav) == [nav EXCEPT !.trust = "high"]

\* ------------------------------------------------------------------------
\* rk_stepper::state
\* ------------------------------------------------------------------------
\* the stages evaluated without the factor qop
evaluate_k_without_qop(tr, b_field, i, h, k_prev) ==
    IF i = 0
    THEN Cross(tr.dir, b_field)
    ELSE Cross(VAdd(tr.dir, VScale(h, k_prev)), b_field)

\* state::evaluate_k
evaluate_k(tr, b_field, i, h, k_prev) ==
    IF i = 0
    THEN VScale(tr.qop, Cross(tr.dir, b_field))
    ELSE VScale(tr.qop, Cross(VAdd(tr.dir, VScale(h, k_prev)), b_field))

\* step: the first Runge-Kutta point
first_point(f, tr, sd) ==
    LET b_first == get_field(f, tr.pos)
    IN  [sd EXCEPT !.b_first = b_first,
                   !.k1 = evaluate_k(tr, b_first, 0, 0, Zero3)]

\* try_rk4 with a field sample of its own for the third point
rk4_points_resampled(f, tr, sd, h) ==
    LET h2     == Mul(h, h)
        half_h == Mul(h, S \div 2)
        pos    == tr.pos
        dir    == tr.dir
        pos1 == VAdd(VAdd(pos, VScale(half_h, dir)),
                     VScale(Mul(h2, S \div 8), sd.k1))
        b_middle == get_field(f, pos1)
        k2 == evaluate_k(tr, b_middle, 1, half_h, sd.k1)
        k3 == evaluate_k(tr, get_field(f, VAdd(pos, VScale(h, dir))), 2,
                         half_h, k2)
        pos2 == VAdd(VAdd(pos, VScale(h, dir)), VScale(Mul(h2, S \div 2), k3))
        b_last == get_field(f, pos2)
        k4 == evaluate_k(tr, b_last, 3, h, k3)
    IN  [sd EXCEPT !.b_middle = b_middle, !.k2 = k2, !.k3 = k3,
                   !.b_last = b_last, !.k4 = k4]

\* try_rk4: the second, third and last Runge-Kutta points for step size h
rk4_points(f, tr, sd, h) ==
    LET h2     == Mul(h, h)
        half_h == Mul(h, S \div 2)
        pos    == tr.pos
        dir    == tr.dir
        pos1 == VAdd(VAdd(pos, VScale(half_h, dir)),
                     VScale(Mul(h2, S \div 8), sd.k1))
        b_middle == get_field(f, pos1)
        k2 == evaluate_k(tr, b_middle, 1, half_h, sd.k1)
        k3 == evaluate_k(tr, b_middle, 2, half_h, k2)
        pos2 == VAdd(VAdd(pos, VScale(h, dir)), VScale(Mul(h2, S \div 2), k3))
        b_last == get_field(f, pos2)
        k4 == evaluate_k(tr, b_last, 3, h, k3)
    IN  [sd EXCEPT !.b_middle = b_middle, !.k2 = k2, !.k3 = k3,
                   !.b_last = b_last, !.k4 = k4]

\* the positions at which step samples the field before the trials
first_samples(tr) == <<tr.pos>>

\* the positions at which one call of try_rk4 samples the field
trial_samples(f, tr, sd, h) ==
    LET h2 == Mul(h, h)
    IN  <<VAdd(VAdd(tr.pos, VScale(Mul(h, S \div 2), tr.dir)),
               VScale(Mul(h2, S \div 8), sd.k1)),
          VAdd(VAdd(tr.pos, VScale(h, tr.dir)),
               VScale(Mul(h2, S \div 2), rk4_points(f, tr, sd, h).k3))>>

\* the error estimate without its floor
error_without_floor(sd, h) ==
    Norm(VScale(Mul(h, h), VAdd(VSub(VSub(sd.k1, sd.k2), sd.k3), sd.k4)))

\* try_rk4: the local integration error estimate of a trial
error_of(sd, h) ==
    LET h2 == Mul(h, h)
        err_vec == VScale(h2, VAdd(VSub(VSub(sd.k1, sd.k2), sd.k3), sd.k4))
    IN  StdMax(Norm(err_vec), ErrFloor)

\* try_rk4: its result
trial_ok(err, tol) == err <= tol

\* the scaling with one square root instead of two
scaling_single_sqrt(tol, err) ==
    StdMin(StdMax(S \div 4, Sqrt(Quot(tol, Abs(Mul(2 * S, err))))), 4 * S)

\* the scaling without the factor 2 of the error estimate
scaling_without_two(tol, err) ==
    StdMin(StdMax(S \div 4, Sqrt(Sqrt(Quot(tol, Abs(err))))), 4 * S)

\* step: the scaling of the step size after a rejected trial
scaling_of(tol, err) ==
    StdMin(StdMax(S \div 4, Sqrt(Sqrt(Quot(tol, Abs(Mul(2 * S, err)))))), 4 * S)

\* step: the step size is too small
below_cutoff(h, cutoff) == Abs(h) < Abs(cutoff)

\* the trial counter compared with >= instead of >
too_many_trials_at_max(n, max) == n >= max

\* the trial counter compared one trial too late
too_many_trials_late(n, max) == n > max + 1

\* step: too many trials
too_many_trials(n, max) == n > max

\* a step size of zero taken for a backward step
direction_of_strict(h) == IF h > 0 THEN e_forward ELSE e_backward

\* step: the navigation direction of a step size
direction_of(h) == IF h >= 0 THEN e_forward ELSE e_backward

\* the constraints check left out
unconstrained(h, c, dir) == h

\* step: the step size after the constraints check
constrained(h, c, dir) ==
    IF Abs(h) > Abs(constraint_size(c, dir)) THEN constraint_size(c, dir) ELSE h

\* state::advance_derivative
advance_derivative(d, tr, sd) ==
    SetBlock31(SetBlock31(d, tr.dir, e_free_pos0, 0), sd.k4, e_free_dir0, 0)

\* the position advanced with h^2/2 instead of h^2/6
advanced_pos_half(tr, sd, h) ==
    VAdd(VAdd(tr.pos, VScale(h, tr.dir)),
         VScale(Quot(Mul(h, h), 2 * S), VAdd(VAdd(sd.k1, sd.k2), sd.k3)))

\* state::advance_track: the new position
advanced_pos(tr, sd, h) ==
    VAdd(VAdd(tr.pos, VScale(h, tr.dir)),
         VScale(Quot(Mul(h, h), 6 * S), VAdd(VAdd(sd.k1, sd.k2), sd.k3)))

\* the direction advanced without normalisation
advanced_dir_unnormalized(tr, sd, h) ==
    VAdd(tr.dir,
         VScale(Quot(h, 6 * S),
                VAdd(VAdd(sd.k1, VScale(2 * S, VAdd(sd.k2, sd.k3))), sd.k4)))

\* state::advance_track: the new direction
advanced_dir(tr, sd, h) ==
    Normalize(VAdd(tr.dir,
                   VScale(Quot(h, 6 * S),
                          VAdd(VAdd(sd.k1, VScale(2 * S, VAdd(sd.k2, sd.k3))),
                               sd.k4))))

\* state::advance_track: the new path length
advanced_path(s, h) == s + h


\* state::advance_jacobian: the derivatives of the stages and of the step
\* with respect to the direction T and to qop (L), as the code computes them
\* from the track, the step data and the step size it finds
jacobian_blocks(tr, sd, h) ==
    LET dir    == tr.dir
        qop    == tr.qop
        half_h == Mul(h, S \div 2)
        I3     == Identity(3)
        dk1dT  == MScale(qop, ColumnWiseCross(I3, sd.b_first))
        dk2dT  == MScale(qop, ColumnWiseCross(MAdd(I3, MScale(half_h, dk1dT)),
                                              sd.b_middle))
        dk3dT  == MScale(qop, ColumnWiseCross(MAdd(I3, MScale(half_h, dk2dT)),
                                              sd.b_middle))
        dk4dT  == MScale(qop, ColumnWiseCross(MAdd(I3, MScale(h, dk3dT)),
                                              sd.b_last))
        dFdT   == MScale(h, MAdd(I3, MScale(Quot(h, 6 * S),
                                            MAdd(MAdd(dk1dT, dk2dT), dk3dT))))
        dGdT   == MAdd(I3, MScale(Quot(h, 6 * S),
                                  MAdd(MAdd(dk1dT,
                                            MScale(2 * S, MAdd(dk2dT, dk3dT))),
                                       dk4dT)))
        dk1dL  == Cross(dir, sd.b_first)
        dk2dL  == VAdd(Cross(VAdd(dir, VScale(half_h, sd.k1)), sd.b_middle),
                       VScale(Mul(qop, half_h), Cross(dk1dL, sd.b_middle)))
        dk3dL  == VAdd(Cross(VAdd(dir, VScale(half_h, sd.k2)), sd.b_middle),
                       VScale(Mul(qop, half_h), Cross(dk2dL, sd.b_middle)))
        dk4dL  == VAdd(Cross(VAdd(dir, VScale(h, sd.k3)), sd.b_last),
                       VScale(Mul(qop, h), Cross(dk3dL, sd.b_last)))
        dFdL   == VScale(Quot(Mul(h, h), 6 * S), VAdd(VAdd(dk1dL, dk2dL), dk3dL))
        dGdL   == VScale(Quot(h, 6 * S),
                         VAdd(VAdd(dk1dL, VScale(2 * S, VAdd(dk2dL, dk3dL))),
                              dk4dL))
    IN  [dFdT |-> dFdT, dGdT |-> dGdT, dFdL |-> dFdL, dGdL |-> dGdL,
         dk1dL |-> dk1dL, dk2dL |-> dk2dL, dk3dL |-> dk3dL, dk4dL |-> dk4dL,
         dir |-> dir, h |-> h]

\* the transport matrix with the (3,7) element of equation (17) put in
transport_matrix_with_time(tr, sd, h) ==
    CHOOSE D \in {[SetBlock31(
                      SetBlock33(
                          SetBlock31(
                              SetBlock33(Identity(e_free_size), b.dFdT, 0, 4),
                              b.dFdL, 0, 7),
                          b.dGdT, 4, 4),
                      b.dGdL, 4, 7) EXCEPT ![3][7] = h] :
                  b \in {jacobian_blocks(tr, sd, h)}} : TRUE

\* state::advance_jacobian: the transport matrix D of one step
transport_matrix(tr, sd, h) ==
    CHOOSE D \in {SetBlock31(
                      SetBlock33(
                          SetBlock31(
                              SetBlock33(Identity(e_free_size), b.dFdT, 0, 4),
                              b.dFdL, 0, 7),
                          b.dGdT, 4, 4),
                      b.dGdL, 4, 7) : b \in {jacobian_blocks(tr, sd, h)}} : TRUE

\* the jacobian transport multiplied from the right
advance_jacobian_right(J, tr, sd, h) ==
    MatMul(J, transport_matrix(tr, sd, h), e_free_size)

\* state::advance_jacobian: the new jacobian transport
advance_jacobian(J, tr, sd, h) ==
    MatMul(transport_matrix(tr, sd, h), J, e_free_size)

\* ------------------------------------------------------------------------
\* rk_stepper::bound_state
\* ------------------------------------------------------------------------
\* the transforms bound_state is called with: translations
Transforms == {<<0, 0, 0>>, <<3000, 2000, 10000>>}

\* detray::bound_track_parameters<transform3_t>(): no surface, zero vector,
\* zero covariance
DefaultBound == [surface_link |-> "invalid",
                 vector |-> ZeroMat(e_bound_size, 1),
                 covariance |-> ZeroMat(e_bound_size, e_bound_size)]

\* no call of bound_state yet
NoBound == [called |-> FALSE]

\* no propagate() call is running
NoProp == [at |-> "off"]

\* no actor chain
NoActors == [chain |-> <<>>]

\* no call of the intersector yet
NoIntersection == [called |-> FALSE]

\* the part of the propagation state the disabled logic of bound_state
\* names
Stepping == [track |-> track, bound_covariance |-> bound_covariance,
             jac_to_global |-> jac_to_global, jac_transport |-> jac_transport,
             derivative |-> derivative]

\* bound_state with the jacobians reinitialised, as the disabled logic would
bound_state_reinitialized(stepping, trf3) ==
    [value |-> DefaultBound,
     stepping |-> [stepping EXCEPT !.jac_transport = Identity(e_free_size),
                                   !.derivative = ZeroMat(e_free_size, 1)]]

\* bound_state: the value it returns and the stepper state it leaves
bound_state_of(stepping, trf3) ==
    [value |-> DefaultBound, stepping |-> stepping]

\* ------------------------------------------------------------------------
\* Masks and the plane intersector
\* ------------------------------------------------------------------------
\* boundary values, local points and tolerances handed to a mask
MaskBounds == {<<0>>, <<500>>, <<3000, 3000>>, <<500, 3500>>}
MaskTolerances == {0, 1000}

\* a mask with boundaries: |loc0| <= half length x, |loc1| <= half length y
rectangle2_check_boundaries(bounds, loc_p, tol) ==
    /\ Abs(loc_p[1]) <= bounds[1] + tol
    /\ Abs(loc_p[2]) <= bounds[Len(bounds)] + tol

\* unmasked::check_boundaries: the parameters are ignored
unmasked_check_boundaries(bounds, loc_p, tol) == TRUE

\* the boundary check of the mask's shape
check_boundaries(mask, loc_p, tol) ==
    IF mask.shape = "unmasked"
    THEN unmasked_check_boundaries(mask.values, loc_p, tol)
    ELSE rectangle2_check_boundaries(mask.values, loc_p, tol)

Masks == [shape : {"unmasked"}, values : {<<0>>, <<500>>}] \cup
         [shape : {"rectangle2"}, values : {<<3000, 3000>>, <<500, 3500>>}]

\* rays of the intersection tests: origin and direction
RayOrigins == {<<2000, 1000, 0>>, <<0, 0, 0>>, <<0 - 4000, 6000, 2000>>}
RayDirs == {<<0, 0, 1000>>, <<600, 0, 800>>, <<1000, 0, 0>>}

\* the sign of a scalar: -1, 0 or 1
Sign0(a) == IF a > 0 THEN 1 ELSE IF a < 0 THEN 0 - 1 ELSE 0

\* a plane intersector that moves the local point of a hit outside of a
\* rectangle onto the rectangle's edge
plane_intersector_clipped(traj, mask, trf, tol) ==
    IF traj.dir[3] = 0 THEN <<>>
    ELSE LET path == Quot(trf[3] - traj.pos[3], traj.dir[3])
             p3 == VAdd(traj.pos, VScale(path, traj.dir))
             p2 == <<p3[1] - trf[1], p3[2] - trf[2]>>
             in == check_boundaries(mask, p2, tol)
             b0 == mask.values[1]
         IN <<[status |-> IF in THEN "inside" ELSE "outside",
               path |-> path, p3 |-> p3,
               p2 |-> IF in \/ Abs(p2[1]) <= b0 THEN p2
                      ELSE <<Sign0(p2[1]) * b0, p2[2]>>]>>

\* a plane whose normal is the z axis of the frame trf (a translation): the
\* hits of a straight trajectory; none when it runs parallel to the plane
plane_intersector(traj, mask, trf, tol) ==
    IF traj.dir[3] = 0 THEN <<>>
    ELSE LET path == Quot(trf[3] - traj.pos[3], traj.dir[3])
             p3 == VAdd(traj.pos, VScale(path, traj.dir))
             p2 == <<p3[1] - trf[1], p3[2] - trf[2]>>
         IN <<[status |-> IF check_boundaries(mask, p2, tol)
                          THEN "inside" ELSE "outside",
               path |-> path, p3 |-> p3, p2 |-> p2]>>


\* ------------------------------------------------------------------------
\* The telescope detector: parallel planes, the last one closes the world
\* ------------------------------------------------------------------------
\* the planes are unbounded, their normal is the z axis; the track leaves
\* the world through the last one
plane_positions == <<0, 1000, 2000, 3000, 4000, 5000, 6000>>

surfaces ==
    [i \in 0..(Len(plane_positions) - 1) |->
        [trf |-> <<0, 0, plane_positions[i + 1]>>,
         mask |-> [shape |-> "unmasked", values |-> <<0>>],
         portal |-> (i = Len(plane_positions) - 1)]]

\* overstep tolerance of the trajectories: -5 um
overstep_tolerance == 0 - 5

\* tolerance of the boundary checks of the navigator
mask_tolerance == 0

\* ------------------------------------------------------------------------
\* navigator
\* ------------------------------------------------------------------------
\* the hit of the track's tangent on surface i; no hit is "undefined"
hit_on(tr, i) ==
    LET hits == plane_intersector(tr, surfaces[i].mask, surfaces[i].trf,
                                  mask_tolerance)
    IN  IF hits = <<>> THEN [status |-> "undefined", path |-> 0] ELSE hits[1]

\* surfaces not yet visited whose hit is inside and not behind the track by
\* more than the overstep tolerance
valid_candidates(nav, tr) ==
    {i \in DOMAIN surfaces \ nav.visited :
        /\ hit_on(tr, i).status = "inside"
        /\ hit_on(tr, i).path >= overstep_tolerance}

\* candidates sorted by ascending path length, ties by surface identifier
before(tr, a, b) ==
    \/ hit_on(tr, a).path < hit_on(tr, b).path
    \/ hit_on(tr, a).path = hit_on(tr, b).path /\ a < b

RECURSIVE sorted_candidates(_, _)
sorted_candidates(tr, cs) ==
    IF cs = {} THEN <<>>
    ELSE LET c == CHOOSE a \in cs : \A b \in cs \ {a} : before(tr, a, b)
         IN  <<c>> \o sorted_candidates(tr, cs \ {c})

\* navigator.update(state): the status and the permitted step after looking
\* at the target (kept while the track is on its way to it) or at the
\* nearest candidate
navigator_update_of(nav, tr) ==
    IF nav.status \in {"abort", "exit"} THEN nav
    ELSE LET cands == sorted_candidates(tr, valid_candidates(nav, tr))
         IN  IF nav.status # "towards_object" /\ cands = <<>>
             THEN navigation_abort(nav)
             ELSE LET c == IF nav.status = "towards_object"
                           THEN nav.current ELSE cands[1]
                      d == hit_on(tr, c).path
                  IN  IF d <= 0
                      THEN [nav EXCEPT
                               !.status = IF surfaces[c].portal
                                          THEN "exit" ELSE "on_object",
                               !.current = c,
                               !.visited = @ \cup {c},
                               !.order = Append(@, c),
                               !.dist = 0]
                      ELSE [nav EXCEPT !.status = "towards_object",
                                       !.current = c,
                                       !.dist = d - overstep_tolerance]

\* ------------------------------------------------------------------------
\* line_stepper
\* ------------------------------------------------------------------------
\* the transport increment of a straight step: identity plus translation
line_transport(h) ==
    SetBlock33(Identity(e_free_size), MScale(h, Identity(3)), e_free_pos0,
               e_free_dir0)

\* ------------------------------------------------------------------------
\* Covariance engine, planar surfaces: the local frame is the tangent plane
\* basis (x, y), the normal is z
\* ------------------------------------------------------------------------
e_bound_loc0 == 0
e_bound_loc1 == 1
e_bound_phi == 2
e_bound_theta == 3
e_bound_qoverp == 4
e_bound_time == 5
e_free_time == 3
e_free_qoverp == 7

\* sine and cosine of the angles theta and phi of a unit direction
sin_theta(dir) == Sqrt(Mul(dir[1], dir[1]) + Mul(dir[2], dir[2]))
cos_theta(dir) == dir[3]
cos_phi(dir) == Quot(dir[1], sin_theta(dir))
sin_phi(dir) == Quot(dir[2], sin_theta(dir))

\* d(free) / d(bound) at a plane, 8 x 6
bound_to_free_jacobian(dir) ==
    [i \in 0..(e_free_size - 1) |-> [j \in 0..(e_bound_size - 1) |->
        CASE i = 0 /\ j = e_bound_loc0 -> S
          [] i = 1 /\ j = e_bound_loc1 -> S
          [] i = e_free_time /\ j = e_bound_time -> S
          [] i = e_free_dir0 /\ j = e_bound_phi ->
                 0 - Mul(sin_theta(dir), sin_phi(dir))
          [] i = e_free_dir0 + 1 /\ j = e_bound_phi ->
                 Mul(sin_theta(dir), cos_phi(dir))
          [] i = e_free_dir0 /\ j = e_bound_theta ->
                 Mul(cos_theta(dir), cos_phi(dir))
          [] i = e_free_dir0 + 1 /\ j = e_bound_theta ->
                 Mul(cos_theta(dir), sin_phi(dir))
          [] i = e_free_dir0 + 2 /\ j = e_bound_theta -> 0 - sin_theta(dir)
          [] i = e_free_qoverp /\ j = e_bound_qoverp -> S
          [] OTHER -> 0]]

\* d(bound) / d(free) at a plane, 6 x 8
free_to_bound_jacobian(dir) ==
    [i \in 0..(e_bound_size - 1) |-> [j \in 0..(e_free_size - 1) |->
        CASE i = e_bound_loc0 /\ j = 0 -> S
          [] i = e_bound_loc1 /\ j = 1 -> S
          [] i = e_bound_time /\ j = e_free_time -> S
          [] i = e_bound_phi /\ j = e_free_dir0 ->
                 0 - Quot(sin_phi(dir), sin_theta(dir))
          [] i = e_bound_phi /\ j = e_free_dir0 + 1 ->
                 Quot(cos_phi(dir), sin_theta(dir))
          [] i = e_bound_theta /\ j = e_free_dir0 ->
                 Mul(cos_phi(dir), cos_theta(dir))
          [] i = e_bound_theta /\ j = e_free_dir0 + 1 ->
                 Mul(sin_phi(dir), cos_theta(dir))
          [] i = e_bound_theta /\ j = e_free_dir0 + 2 -> 0 - sin_theta(dir)
          [] i = e_bound_qoverp /\ j = e_free_qoverp -> S
          [] OTHER -> 0]]

\* d(path) / d(free) at a plane, 1 x 8: -normal / (normal . dir)
free_to_path_derivative(dir) ==
    [i \in 0..0 |-> [j \in 0..(e_free_size - 1) |->
        IF j = 2 THEN Quot(0 - S, dir[3]) ELSE 0]]

\* product of an n x k and a k x m matrix
MatMulR(A, B, n, k, m) ==
    CHOOSE R \in {[i \in 0..(n - 1) |-> [j \in 0..(m - 1) |->
                      DotTo(a, b, i, j, k - 1)]] : a \in {A}, b \in {B}} : TRUE

Transpose(A, n, m) ==
    CHOOSE R \in {[j \in 0..(m - 1) |-> [i \in 0..(n - 1) |-> a[i][j]]] :
                     a \in {A}} : TRUE

\* the bound to bound jacobian of one leg
bound_to_bound_jacobian(stepping) ==
    LET correction == MAdd(Identity(e_free_size),
                           MatMulR(stepping.derivative,
                                   free_to_path_derivative(stepping.track.dir),
                                   e_free_size, 1, e_free_size))
        free_part  == MatMul(correction, stepping.jac_transport, e_free_size)
    IN  MatMulR(MatMulR(free_to_bound_jacobian(stepping.track.dir), free_part,
                        e_bound_size, e_free_size, e_free_size),
                stepping.jac_to_global,
                e_bound_size, e_free_size, e_bound_size)

\* the covariance update without the transposition: J * C * J
covariance_update_untransposed(stepping) ==
    CHOOSE R \in {MatMulR(MatMulR(J, stepping.bound_covariance, e_bound_size,
                                  e_bound_size, e_bound_size),
                          J, e_bound_size, e_bound_size, e_bound_size) :
                     J \in {bound_to_bound_jacobian(stepping)}} : TRUE

\* C' = J * C * J^T
bound_to_bound_covariance_update(stepping) ==
    CHOOSE R \in {MatMulR(MatMulR(J, stepping.bound_covariance, e_bound_size,
                                  e_bound_size, e_bound_size),
                          Transpose(J, e_bound_size, e_bound_size),
                          e_bound_size, e_bound_size, e_bound_size) :
                     J \in {bound_to_bound_jacobian(stepping)}} : TRUE

\* the bound parameters of a free track on surface i; the angles phi and
\* theta are kept as the unit direction they stand for
free_to_bound_vector(tr, i) ==
    [local |-> <<tr.pos[1] - surfaces[i].trf[1], tr.pos[2] - surfaces[i].trf[2]>>,
     dir |-> tr.dir, qop |-> tr.qop, time |-> tr.time]

\* the resetter without the reinitialisation of the transport jacobian and
\* of the derivative
reinitialize_jacobians_kept(stepping) ==
    [stepping EXCEPT !.jac_to_global = bound_to_free_jacobian(stepping.track.dir)]

\* reinitialize_jacobians: a new departure jacobian, the transport jacobian
\* back to identity and the path derivative back to zero
reinitialize_jacobians(stepping) ==
    [stepping EXCEPT !.jac_to_global = bound_to_free_jacobian(stepping.track.dir),
                     !.jac_transport = Identity(e_free_size),
                     !.derivative = ZeroMat(e_free_size, 1)]

\* ------------------------------------------------------------------------
\* pathlimit_aborter
\* ------------------------------------------------------------------------
\* the path left before the limit
step_limit(limit, s) == limit - Abs(s)

\* ------------------------------------------------------------------------
\* propagator
\* ------------------------------------------------------------------------
\* the budget of loop iterations of one propagate() call
max_iterations == 16

\* integration tolerances of the propagations
PropTolerances == {0, 1, 500}

\* step size cutoffs of the propagations
PropCutoffs == {10, 100}

\* limits of the path limit aborter: a limit between two planes, and none
path_limit == 4400
PathLimits == {path_limit, ScalarMax}

\* the covariance of the bound state at departure: identity with zero
\* variance of the angles
bound_cov0 ==
    [i \in 0..(e_bound_size - 1) |-> [j \in 0..(e_bound_size - 1) |->
        IF i = j /\ i \notin {e_bound_phi, e_bound_theta} THEN S ELSE 0]]


\* ------------------------------------------------------------------------
\* Initial state: a freshly constructed propagation state
\* ------------------------------------------------------------------------
\* the stepper, the propagation and the intersector after construction
InitStepper ==
    /\ magnetic_field \in Fields
    /\ track \in [pos : {Zero3}, dir : StartDirs, qop : Qops, time : {0}]
    /\ jac_transport = Identity(e_free_size)
    /\ derivative = ZeroMat(e_free_size, 1)
    /\ jac_to_global = ZeroMat(e_free_size, e_bound_size)
    /\ bound_covariance = ZeroMat(e_bound_size, e_bound_size)
    /\ direction = e_forward
    /\ constraint \in [accuracy : AccuracyConstraints, actor : {ScalarMax},
                       aborter : {ScalarMax}, user : {ScalarMax}]
    /\ path_length = 0
    /\ step_size = 0
    /\ step_data = [b_first |-> Zero3, b_middle |-> Zero3, b_last |-> Zero3,
                    k1 |-> Zero3, k2 |-> Zero3, k3 |-> Zero3, k4 |-> Zero3]
    /\ tolerance \in Tolerances
    /\ step_size_cutoff \in Cutoffs
    /\ max_rk_step_trials \in 0..MaxTrialsCfg
    /\ navigation = [status |-> "unknown", dist |-> 0, heartbeat |-> TRUE,
                     trust |-> "none"]
    /\ pc = "idle"
    /\ error_estimate = 0
    /\ step_size_scaling = S
    /\ n_step_trials = 0
    /\ trial_h = 0
    /\ accepted = FALSE
    /\ ret = "none"
    /\ entry = Snapshot
    /\ hist = NoHist
    /\ bound_ret = NoBound
    /\ bound_params = DefaultBound
    /\ prop = NoProp
    /\ actor_states = NoActors
    /\ isect = NoIntersection

Init ==
    /\ InitStepper
    /\ mat_builder = NoBuilder
    /\ det = NoDetector
    /\ mat_call = NoCall

\* ------------------------------------------------------------------------
\* The navigator hands the stepper the distance to the next candidate
\* ------------------------------------------------------------------------
navigator_update(d) ==
    /\ pc = "idle"
    /\ navigation.status # "abort"
    /\ hist.calls < MaxCalls
    /\ navigation' = [navigation EXCEPT !.status = "towards_object", !.dist = d,
                                        !.trust = "full"]
    /\ pc' = "begin"
    /\ UNCHANGED <<config, track, jac_transport, derivative, direction,
                   path_length, step_size, step_data, locals, ret, entry, hist>>

\* ------------------------------------------------------------------------
\* rk_stepper::step
\* ------------------------------------------------------------------------
\* entry of step up to the retry loop: first Runge-Kutta point, initial step
\* size estimate
step_begin ==
    /\ pc = "begin"
    /\ error_estimate' = 0
    /\ step_data' = first_point(magnetic_field, track, step_data)
    /\ step_size' = navigation_distance(navigation)
    /\ step_size_scaling' = S
    /\ n_step_trials' = 0
    /\ pc' = "try"
    /\ ret' = "none"
    /\ entry' = Snapshot
    /\ hist' = [NoHist EXCEPT !.calls = hist.calls + 1,
                              !.samples = Len(first_samples(track)),
                              !.increments = hist.increments]
    /\ UNCHANGED <<config, track, jac_transport, derivative, direction,
                   path_length, navigation, trial_h, accepted>>

\* the loop condition: one call of try_rk4
step_try ==
    /\ pc = "try"
    /\ LET sd  == rk4_points(magnetic_field, track, step_data, step_size)
           err == error_of(sd, step_size)
           ok  == trial_ok(err, tolerance)
       IN  /\ step_data' = sd
           /\ error_estimate' = err
           /\ accepted' = ok
           /\ trial_h' = step_size
           /\ pc' = IF ok THEN "direction" ELSE "rescale"
           /\ hist' = [hist EXCEPT !.trials = @ + 1,
                                   !.samples = @ + Len(trial_samples(
                                       magnetic_field, track, step_data,
                                       step_size)),
                                   !.rejected = IF ok THEN @ ELSE @ + 1,
                                   !.first_h = IF hist.trials = 0 THEN step_size ELSE @,
                                   !.accepted_h = IF ok THEN step_size ELSE @]
    /\ UNCHANGED <<config, track, jac_transport, derivative, direction,
                   path_length, step_size, navigation, step_size_scaling,
                   n_step_trials, ret, entry>>

\* the step size after the rescaling of a rejected trial
rescaled(h, tol, err) == Mul(h, scaling_of(tol, err))

\* the too-small branch returning false without telling the navigator
step_rescale_too_small_silent ==
    /\ pc = "rescale"
    /\ LET h == rescaled(step_size, tolerance, error_estimate)
       IN  /\ below_cutoff(h, step_size_cutoff)
           /\ step_size' = h
    /\ step_size_scaling' = scaling_of(tolerance, error_estimate)
    /\ ret' = "false"
    /\ pc' = "idle"
    /\ UNCHANGED <<config, track, jac_transport, derivative, direction,
                   path_length, step_data, error_estimate, n_step_trials,
                   trial_h, accepted, entry, navigation, hist>>

\* the loop body ends in abort: step size too small
step_rescale_too_small ==
    /\ pc = "rescale"
    /\ LET h == rescaled(step_size, tolerance, error_estimate)
       IN  /\ below_cutoff(h, step_size_cutoff)
           /\ step_size' = h
    /\ step_size_scaling' = scaling_of(tolerance, error_estimate)
    /\ navigation' = navigation_abort(navigation)
    /\ ret' = "false"
    /\ pc' = "idle"
    /\ hist' = [hist EXCEPT !.aborts = @ + 1]
    /\ UNCHANGED <<config, track, jac_transport, derivative, direction,
                   path_length, step_data, error_estimate, n_step_trials,
                   trial_h, accepted, entry>>

\* the abort for too many trials with the direction flag already updated
step_rescale_too_many_after_direction ==
    /\ pc = "rescale"
    /\ LET h == rescaled(step_size, tolerance, error_estimate)
       IN  /\ ~below_cutoff(h, step_size_cutoff)
           /\ step_size' = h
           /\ direction' = direction_of(h)
    /\ too_many_trials(n_step_trials, max_rk_step_trials)
    /\ step_size_scaling' = scaling_of(tolerance, error_estimate)
    /\ navigation' = navigation_abort(navigation)
    /\ ret' = "false"
    /\ pc' = "idle"
    /\ hist' = [hist EXCEPT !.aborts = @ + 1]
    /\ UNCHANGED <<config, track, jac_transport, derivative,
                   path_length, step_data, error_estimate, n_step_trials,
                   trial_h, accepted, entry>>

\* the loop body ends in abort: too many trials
step_rescale_too_many ==
    /\ pc = "rescale"
    /\ LET h == rescaled(step_size, tolerance, error_estimate)
       IN  /\ ~below_cutoff(h, step_size_cutoff)
           /\ step_size' = h
    /\ too_many_trials(n_step_trials, max_rk_step_trials)
    /\ step_size_scaling' = scaling_of(tolerance, error_estimate)
    /\ navigation' = navigation_abort(navigation)
    /\ ret' = "false"
    /\ pc' = "idle"
    /\ hist' = [hist EXCEPT !.aborts = @ + 1]
    /\ UNCHANGED <<config, track, jac_transport, derivative, direction,
                   path_length, step_data, error_estimate, n_step_trials,
                   trial_h, accepted, entry>>

\* the loop body ends normally: retry with the rescaled step size
step_rescale_retry ==
    /\ pc = "rescale"
    /\ LET h == rescaled(step_size, tolerance, error_estimate)
       IN  /\ ~below_cutoff(h, step_size_cutoff)
           /\ step_size' = h
    /\ ~too_many_trials(n_step_trials, max_rk_step_trials)
    /\ step_size_scaling' = scaling_of(tolerance, error_estimate)
    /\ n_step_trials' = n_step_trials + 1
    /\ pc' = "try"
    /\ UNCHANGED <<config, track, jac_transport, derivative, direction,
                   path_length, step_data, error_estimate, navigation,
                   trial_h, accepted, ret, entry, hist>>

\* update navigation direction
step_direction ==
    /\ pc = "direction"
    /\ direction' = direction_of(step_size)
    /\ pc' = "constraints"
    /\ UNCHANGED <<config, track, jac_transport, derivative, path_length,
                   step_size, step_data, navigation, locals, ret, entry, hist>>

\* check constraints
step_constraints ==
    /\ pc = "constraints"
    /\ step_size' = constrained(step_size, constraint, direction)
    /\ hist' = [hist EXCEPT !.clamped = (step_size' # step_size)]
    /\ pc' = "derivative"
    /\ UNCHANGED <<config, track, jac_transport, derivative, direction,
                   path_length, step_data, navigation, locals, ret, entry>>

\* stepping.advance_derivative()
step_advance_derivative ==
    /\ pc = "derivative"
    /\ derivative' = advance_derivative(derivative, track, step_data)
    /\ hist' = [hist EXCEPT !.adv_derivative = @ + 1]
    /\ pc' = "track"
    /\ UNCHANGED <<config, track, jac_transport, direction, path_length,
                   step_size, step_data, navigation, locals, ret, entry>>

\* advance_track followed at once by the policy
step_advance_track_skipping_jacobian ==
    /\ pc = "track"
    /\ track' = [track EXCEPT !.pos = advanced_pos(track, step_data, step_size),
                              !.dir = advanced_dir(track, step_data, step_size)]
    /\ path_length' = advanced_path(path_length, step_size)
    /\ hist' = [hist EXCEPT !.adv_track = @ + 1, !.applied_h = step_size]
    /\ pc' = "policy"
    /\ UNCHANGED <<config, jac_transport, derivative, direction, step_size,
                   step_data, navigation, locals, ret, entry>>

\* stepping.advance_track()
step_advance_track ==
    /\ pc = "track"
    /\ track' = [track EXCEPT !.pos = advanced_pos(track, step_data, step_size),
                              !.dir = advanced_dir(track, step_data, step_size)]
    /\ path_length' = advanced_path(path_length, step_size)
    /\ hist' = [hist EXCEPT !.adv_track = @ + 1, !.applied_h = step_size]
    /\ pc' = "jacobian"
    /\ UNCHANGED <<config, jac_transport, derivative, direction, step_size,
                   step_data, navigation, locals, ret, entry>>

\* stepping.advance_jacobian()
step_advance_jacobian ==
    /\ pc = "jacobian"
    /\ jac_transport' = advance_jacobian(jac_transport, track, step_data, step_size)
    /\ hist' = [hist EXCEPT
                   !.adv_jacobian = @ + 1,
                   !.increments =
                       Append(@, transport_matrix(track, step_data, step_size)),
                   !.blocks = jacobian_blocks(track, step_data, step_size)]
    /\ pc' = "policy"
    /\ UNCHANGED <<config, track, derivative, direction, path_length, step_size,
                   step_data, navigation, locals, ret, entry>>

\* the navigation update policy, and return true
step_policy ==
    /\ pc = "policy"
    /\ navigation' = navigation_policy(navigation)
    /\ hist' = [hist EXCEPT !.policy = @ + 1]
    /\ ret' = "true"
    /\ pc' = "idle"
    /\ UNCHANGED <<config, track, jac_transport, derivative, direction,
                   path_length, step_size, step_data, locals, entry>>

\* one call of the plane intersector: pi(r, mask, shifted)
intersect(traj, mask, trf, tol) ==
    /\ pc = "idle"
    /\ prop.at = "off"
    /\ isect' = [called |-> TRUE, traj |-> traj, mask |-> mask, trf |-> trf,
                 tol |-> tol, hits |-> plane_intersector(traj, mask, trf, tol)]
    /\ UNCHANGED <<magnetic_field, track, jac_transport, derivative,
                   jac_to_global, bound_covariance, direction, constraint,
                   path_length, step_size, step_data, tolerance,
                   step_size_cutoff, max_rk_step_trials, navigation, pc,
                   locals, ret, entry, hist, bound_ret, bound_params, prop,
                   actor_states, mat_builder, det, mat_call>>

\* ------------------------------------------------------------------------
\* propagator::propagate: the loop over navigator, stepper and actor chain
\* ------------------------------------------------------------------------
\* what no part of the loop outside the stepper writes
fixed == <<magnetic_field, tolerance, step_size_cutoff, max_rk_step_trials,
           bound_ret, isect, locals, step_data, entry, mat_builder, det,
           mat_call>>

\* navigator.update(state); the stepper is called if the status is
\* towards_object
propagate_update ==
    /\ prop.at = "update"
    /\ navigation' = navigator_update_of(navigation, track)
    /\ prop' = [prop EXCEPT !.at = IF navigation'.status = "towards_object"
                                   THEN "step" ELSE "actor",
                            !.actor = 1]
    /\ UNCHANGED <<fixed, track, jac_transport, derivative, jac_to_global,
                   bound_covariance, direction, constraint, path_length,
                   step_size, pc, ret, hist, bound_params, actor_states>>

\* stepper.step(state) with the Runge-Kutta stepper: the call; the actor
\* chain follows its return
propagate_step ==
    /\ prop.at = "step"
    /\ prop.stepper = "rk"
    /\ pc = "idle"
    /\ pc' = "begin"
    /\ prop' = [prop EXCEPT !.at = "actor"]
    /\ actor_states' = [actor_states EXCEPT !.transporter.updated = FALSE]
    /\ UNCHANGED <<fixed, track, jac_transport, derivative, jac_to_global,
                   bound_covariance, direction, constraint, path_length,
                   step_size, navigation, ret, hist, bound_params>>

\* stepper.step(state) with the straight line stepper
line_step ==
    /\ prop.at = "step"
    /\ prop.stepper = "line"
    /\ pc = "idle"
    /\ LET h0 == navigation_distance(navigation)
           h  == constrained(h0, constraint, direction_of(h0))
       IN  /\ direction' = direction_of(h0)
           /\ step_size' = h
           /\ track' = [track EXCEPT !.pos = VAdd(@, VScale(h, track.dir))]
           /\ path_length' = advanced_path(path_length, h)
           /\ jac_transport' = MatMul(line_transport(h), jac_transport,
                                      e_free_size)
           /\ derivative' = SetBlock31(derivative, track.dir, e_free_pos0, 0)
           /\ hist' = [hist EXCEPT !.calls = @ + 1,
                                   !.applied_h = h,
                                   !.increments = Append(@, line_transport(h))]
    /\ navigation' = navigation_policy(navigation)
    /\ ret' = "true"
    /\ prop' = [prop EXCEPT !.at = "actor"]
    /\ actor_states' = [actor_states EXCEPT !.transporter.updated = FALSE]
    /\ UNCHANGED <<fixed, jac_to_global, bound_covariance, constraint, pc,
                   bound_params>>

\* the position in the loop after the actor at prop.actor
after_actor ==
    IF prop.actor < Len(actor_states.chain)
    THEN [prop EXCEPT !.actor = @ + 1]
    ELSE [prop EXCEPT !.at = "check"]

\* the actor the chain is about to call
current_actor(name) ==
    /\ prop.at = "actor"
    /\ pc = "idle"
    /\ actor_states.chain[prop.actor] = name

\* parameter_transporter: on a surface, the bound parameters and their
\* covariance from the jacobians of the leg
parameter_transporter ==
    /\ current_actor("parameter_transporter")
    /\ IF navigation.status = "on_object"
       THEN /\ bound_covariance' = bound_to_bound_covariance_update(Stepping)
            /\ bound_params' =
                   [surface_link |-> navigation.current,
                    vector |-> free_to_bound_vector(track, navigation.current),
                    covariance |-> bound_covariance']
            /\ actor_states' =
                   [actor_states EXCEPT !.transporter =
                       [updated |-> TRUE, updates |-> @.updates + 1,
                        steps |-> Len(hist.increments)]]
       ELSE UNCHANGED <<bound_covariance, bound_params, actor_states>>
    /\ prop' = after_actor
    /\ UNCHANGED <<fixed, track, jac_transport, derivative, jac_to_global,
                   direction, constraint, path_length, step_size, navigation,
                   pc, ret, hist>>

\* parameter_resetter: on a surface, the jacobians for the next leg
parameter_resetter ==
    /\ current_actor("parameter_resetter")
    /\ IF navigation.status = "on_object"
       THEN LET r == reinitialize_jacobians(Stepping)
            IN  /\ jac_to_global' = r.jac_to_global
                /\ jac_transport' = r.jac_transport
                /\ derivative' = r.derivative
                /\ hist' = [hist EXCEPT !.increments = <<>>]
       ELSE UNCHANGED <<jac_to_global, jac_transport, derivative, hist>>
    /\ prop' = after_actor
    /\ UNCHANGED <<fixed, track, bound_covariance, direction, constraint,
                   path_length, step_size, navigation, pc, ret, bound_params,
                   actor_states>>

\* pathlimit_aborter: abort at the limit, otherwise no step beyond it
pathlimit_aborter ==
    /\ current_actor("pathlimit_aborter")
    /\ LET left == step_limit(actor_states.pathlimit.limit, path_length)
       IN  IF left <= 0
           THEN /\ navigation' = navigation_abort(navigation)
                /\ UNCHANGED constraint
           ELSE /\ constraint' = [constraint EXCEPT !.aborter = left]
                /\ UNCHANGED navigation
    /\ prop' = after_actor
    /\ UNCHANGED <<fixed, track, jac_transport, derivative, jac_to_global,
                   bound_covariance, direction, path_length, step_size, pc,
                   ret, hist, bound_params, actor_states>>

\* the status check that ends an iteration of the loop
propagate_check ==
    /\ prop.at = "check"
    /\ prop' =
           IF navigation.status = "exit"
           THEN [prop EXCEPT !.at = "done", !.result = "true"]
           ELSE IF navigation.status = "abort"
           THEN [prop EXCEPT !.at = "done", !.result = "false"]
           ELSE IF prop.iterations + 1 >= max_iterations
           THEN [prop EXCEPT !.at = "done", !.result = "false",
                             !.iterations = @ + 1]
           ELSE [prop EXCEPT !.at = "update", !.iterations = @ + 1]
    /\ UNCHANGED <<fixed, track, jac_transport, derivative, jac_to_global,
                   bound_covariance, direction, constraint, path_length,
                   step_size, navigation, pc, ret, hist, bound_params,
                   actor_states>>

propagate ==
    \/ propagate_update
    \/ propagate_step
    \/ line_step
    \/ parameter_transporter
    \/ parameter_resetter
    \/ pathlimit_aborter
    \/ propagate_check

\* rk_stepper::bound_state(propagation, trf3), called between two steps
bound_state(trf3) ==
    /\ pc = "idle"
    /\ LET r == bound_state_of(Stepping, trf3)
       IN  /\ bound_ret' = [called |-> TRUE, value |-> r.value, trf3 |-> trf3]
           /\ track' = r.stepping.track
           /\ bound_covariance' = r.stepping.bound_covariance
           /\ jac_to_global' = r.stepping.jac_to_global
           /\ jac_transport' = r.stepping.jac_transport
           /\ derivative' = r.stepping.derivative
    /\ UNCHANGED <<magnetic_field, direction, constraint, path_length,
                   step_size, step_data, tolerance, step_size_cutoff,
                   max_rk_step_trials, navigation, pc, locals, ret, entry,
                   hist, bound_params, prop, actor_states, isect, mat_builder,
                   det, mat_call>>

step ==
    \/ step_begin
    \/ step_try
    \/ step_rescale_too_small
    \/ step_rescale_too_many
    \/ step_rescale_retry
    \/ step_direction
    \/ step_constraints
    \/ step_advance_derivative
    \/ step_advance_track
    \/ step_advance_jacobian
    \/ step_policy

Next ==
    \/ \E d \in NavDistances : navigator_update(d)
    \/ step

Spec == Init /\ [][Next]_vars

\* the stepper with calls of bound_state between the steps
NextBound ==
    \/ Next
    \/ \E trf3 \in Transforms : bound_state(trf3)

SpecBound == Init /\ [][NextBound]_vars

\* the intersection tests: calls of the intersector on a fresh state
InitMask ==
    /\ Init
    /\ magnetic_field = "zero"
    /\ track.qop = 0
    /\ constraint.accuracy = ScalarMax
    /\ tolerance = 500
    /\ max_rk_step_trials = 0

NextMask ==
    \E traj \in [pos : RayOrigins, dir : RayDirs], mask \in Masks,
       trf \in Transforms, tol \in MaskTolerances :
        intersect(traj, mask, trf, tol)

SpecMask == InitMask /\ [][NextMask]_vars

\* propagate() through the telescope detector, from a free track or from a
\* bound state on the first plane
InitProp ==
    /\ prop \in [at : {"update"}, stepper : {"rk", "line"}, iterations : {0},
                  actor : {1}, result : {"none"}, from_bound : BOOLEAN]
    /\ magnetic_field \in {"zero", "const"}
    /\ track \in [pos : {Zero3}, dir : StartDirs, qop : {0 - 400}, time : {0}]
    /\ jac_transport = Identity(e_free_size)
    /\ derivative = ZeroMat(e_free_size, 1)
    /\ jac_to_global = IF prop.from_bound
                       THEN bound_to_free_jacobian(track.dir)
                       ELSE ZeroMat(e_free_size, e_bound_size)
    /\ bound_covariance = IF prop.from_bound THEN bound_cov0
                          ELSE ZeroMat(e_bound_size, e_bound_size)
    /\ bound_params = IF prop.from_bound
                      THEN [surface_link |-> 0,
                            vector |-> free_to_bound_vector(track, 0),
                            covariance |-> bound_cov0]
                      ELSE DefaultBound
    /\ direction = e_forward
    /\ constraint \in [accuracy : {1000, ScalarMax}, actor : {ScalarMax},
                       aborter : {ScalarMax}, user : {ScalarMax}]
    /\ path_length = 0
    /\ step_size = 0
    /\ step_data = [b_first |-> Zero3, b_middle |-> Zero3, b_last |-> Zero3,
                    k1 |-> Zero3, k2 |-> Zero3, k3 |-> Zero3, k4 |-> Zero3]
    /\ tolerance \in PropTolerances
    /\ step_size_cutoff \in PropCutoffs
    /\ max_rk_step_trials \in 0..MaxTrialsCfg
    /\ prop.stepper = "line" =>
           /\ magnetic_field = "zero"
           /\ tolerance = 500
           /\ step_size_cutoff = 100
           /\ max_rk_step_trials = 0
    /\ navigation = [status |-> "unknown", dist |-> 0, heartbeat |-> TRUE,
                     trust |-> "none", current |-> 0, visited |-> {},
                     order |-> <<>>]
    /\ pc = "idle"
    /\ error_estimate = 0
    /\ step_size_scaling = S
    /\ n_step_trials = 0
    /\ trial_h = 0
    /\ accepted = FALSE
    /\ ret = "none"
    /\ entry = Snapshot
    /\ hist = NoHist
    /\ bound_ret = NoBound
    /\ actor_states \in
           [chain : {<<"parameter_transporter", "parameter_resetter",
                       "pathlimit_aborter">>},
            pathlimit : [limit : PathLimits],
            transporter : {[updated |-> FALSE, updates |-> 0, steps |-> 0]}]
    /\ isect = NoIntersection
    /\ mat_builder = NoBuilder
    /\ det = NoDetector
    /\ mat_call = NoCall

NextProp ==
    \/ propagate
    \/ step

SpecProp == InitProp /\ [][NextProp]_vars

\* ------------------------------------------------------------------------
\* material_builder: a volume builder decorated with material
\* ------------------------------------------------------------------------
\* the surfaces and the volumes one detector may hold
MaxSurfaces == 3
MaxVolumes == 2

\* detector_t::materials::id
e_slab == "e_slab"
e_rod == "e_rod"
e_none == "e_none"

\* the material link of a surface without material
no_material == [id |-> e_none, index |-> 0 - 1]

\* an empty material container
no_materials == [e_slab |-> <<>>, e_rod |-> <<>>]

\* the surface types of add_portals, add_sensitives and add_passives
SurfaceTypes == {"portal", "sensitive", "passive"}

\* the factories a builder is called with: surface factories and material
\* factories, the latter with the material id of their surfaces
Factories == [is_material : BOOLEAN, n : 1..2, id : {e_slab, e_rod}]

\* volume_decorator::add_portals, add_sensitives, add_passives: the
\* decorated builder appends the surfaces of the factory to the volume
decorated_add(sfs, type, factory, vol) ==
    sfs \o [k \in 1..factory.n |->
                    [type |-> type, material |-> no_material,
                     label |-> <<vol, Len(sfs) + k>>]]

\* material_factory::operator(): one material for each surface of the
\* factory, linked by its index in the container of the volume
material_factory_call(factory, sfs, materials) ==
    LET first == Len(sfs) - factory.n + 1
        base  == Len(materials[factory.id])
    IN  [surfaces |->
             [k \in 1..Len(sfs) |->
                 IF k >= first
                 THEN [sfs[k] EXCEPT !.material =
                          [id |-> factory.id, index |-> base + (k - first)]]
                 ELSE sfs[k]],
         materials |->
             [materials EXCEPT ![factory.id] =
                 @ \o [k \in 1..factory.n |->
                          [of |-> sfs[first + k - 1].label]]]]

\* surface::update_material(offset): the material link is shifted
update_material(sf, offset) ==
    [sf EXCEPT !.material.index = @ + offset]

\* detector::append_materials: the materials are put behind those of the
\* store
append_materials(store, materials) ==
    [id \in {e_slab, e_rod} |-> store[id] \o materials[id]]

\* material_container::clear_all
clear_all(materials) == no_materials

\* volume_decorator::build: the decorated builder adds the volume and its
\* surfaces to the detector
decorated_build(d, sfs) ==
    [d EXCEPT !.volumes = @ + 1, !.surfaces = @ \o sfs]

\* no call is running on the builder
BuilderIdle == mat_call.op # "none" /\ mat_call.at = "idle"

\* material_builder(vol_builder): the builder of the next volume
new_material_builder ==
    /\ BuilderIdle
    /\ mat_builder.built
    /\ det.volumes < MaxVolumes
    /\ mat_builder' = [surfaces |-> <<>>, m_materials |-> no_materials,
                       built |-> FALSE]
    /\ mat_call' = [mat_call EXCEPT !.op = "construct", !.thrown = "none",
                                    !.before = [builder |-> mat_builder,
                                                det |-> det]]
    /\ UNCHANGED <<det, magnetic_field, track, jac_transport, derivative,
                   jac_to_global, bound_covariance, direction, constraint,
                   path_length, step_size, step_data, tolerance,
                   step_size_cutoff, max_rk_step_trials, navigation, pc,
                   locals, ret, entry, hist, bound_ret, bound_params, prop,
                   actor_states, isect>>

\* add_portals, add_sensitives, add_passives: the call of the base volume
\* builder
add_surfaces(type, factory) ==
    /\ BuilderIdle
    /\ ~mat_builder.built
    /\ Len(det.surfaces) + Len(mat_builder.surfaces) + factory.n <= MaxSurfaces
    /\ factory.id = e_rod => (det.n_types = 2 /\ factory.is_material)
    /\ mat_builder' =
           [mat_builder EXCEPT !.surfaces =
               decorated_add(@, type, factory, det.volumes)]
    /\ mat_call' = [op |-> type, at |-> "material", factory |-> factory,
                    thrown |-> "none",
                    before |-> [builder |-> mat_builder, det |-> det]]
    /\ UNCHANGED <<det, magnetic_field, track, jac_transport, derivative,
                   jac_to_global, bound_covariance, direction, constraint,
                   path_length, step_size, step_data, tolerance,
                   step_size_cutoff, max_rk_step_trials, navigation, pc,
                   locals, ret, entry, hist, bound_ret, bound_params, prop,
                   actor_states, isect>>

\* the material is added whatever the factory is
add_material_unchecked ==
    /\ mat_call.at = "material"
    /\ LET r == material_factory_call(mat_call.factory, mat_builder.surfaces,
                                      mat_builder.m_materials)
       IN  mat_builder' = [mat_builder EXCEPT !.surfaces = r.surfaces,
                                              !.m_materials = r.materials]
    /\ mat_call' = [mat_call EXCEPT
           !.at = "idle",
           !.thrown = IF mat_call.factory.is_material THEN "none"
                      ELSE "Not a material factory"]
    /\ UNCHANGED <<det, magnetic_field, track, jac_transport, derivative,
                   jac_to_global, bound_covariance, direction, constraint,
                   path_length, step_size, step_data, tolerance,
                   step_size_cutoff, max_rk_step_trials, navigation, pc,
                   locals, ret, entry, hist, bound_ret, bound_params, prop,
                   actor_states, isect>>

\* the surfaces of the factory are taken back when the call throws
add_material_atomic ==
    /\ mat_call.at = "material"
    /\ IF mat_call.factory.is_material
       THEN LET r == material_factory_call(mat_call.factory,
                                           mat_builder.surfaces,
                                           mat_builder.m_materials)
            IN  /\ mat_builder' = [mat_builder EXCEPT
                                       !.surfaces = r.surfaces,
                                       !.m_materials = r.materials]
                /\ mat_call' = [mat_call EXCEPT !.at = "idle"]
       ELSE /\ mat_builder' = mat_call.before.builder
            /\ mat_call' = [mat_call EXCEPT
                                !.at = "idle",
                                !.thrown = "Not a material factory"]
    /\ UNCHANGED <<det, magnetic_field, track, jac_transport, derivative,
                   jac_to_global, bound_covariance, direction, constraint,
                   path_length, step_size, step_data, tolerance,
                   step_size_cutoff, max_rk_step_trials, navigation, pc,
                   locals, ret, entry, hist, bound_ret, bound_params, prop,
                   actor_states, isect>>

\* add_portals, add_sensitives, add_passives: the cast to a material
\* factory, then the material or the exception
add_material ==
    /\ mat_call.at = "material"
    /\ IF mat_call.factory.is_material
       THEN LET r == material_factory_call(mat_call.factory,
                                           mat_builder.surfaces,
                                           mat_builder.m_materials)
            IN  /\ mat_builder' = [mat_builder EXCEPT
                                       !.surfaces = r.surfaces,
                                       !.m_materials = r.materials]
                /\ mat_call' = [mat_call EXCEPT !.at = "idle"]
       ELSE /\ mat_call' = [mat_call EXCEPT
                                !.at = "idle",
                                !.thrown = "Not a material factory"]
            /\ UNCHANGED mat_builder
    /\ UNCHANGED <<det, magnetic_field, track, jac_transport, derivative,
                   jac_to_global, bound_covariance, direction, constraint,
                   path_length, step_size, step_data, tolerance,
                   step_size_cutoff, max_rk_step_trials, navigation, pc,
                   locals, ret, entry, hist, bound_ret, bound_params, prop,
                   actor_states, isect>>

\* the links are shifted by the sizes of the store with the materials of
\* this volume in it
build_links_after_append ==
    /\ BuilderIdle
    /\ ~mat_builder.built
    /\ LET material == append_materials(det.material_store,
                                        mat_builder.m_materials)
       IN  mat_builder' =
               [mat_builder EXCEPT !.surfaces =
                   [k \in 1..Len(@) |->
                       IF @[k].material.id = e_slab
                       THEN update_material(@[k], Len(material[e_slab]))
                       ELSE IF det.n_types = 2 /\ @[k].material.id = e_rod
                       THEN update_material(@[k], Len(material[e_rod]))
                       ELSE @[k]]]
    /\ mat_call' = [op |-> "build", at |-> "append", factory |-> "none",
                    thrown |-> "none",
                    before |-> [builder |-> mat_builder, det |-> det]]
    /\ UNCHANGED <<det, magnetic_field, track, jac_transport, derivative,
                   jac_to_global, bound_covariance, direction, constraint,
                   path_length, step_size, step_data, tolerance,
                   step_size_cutoff, max_rk_step_trials, navigation, pc,
                   locals, ret, entry, hist, bound_ret, bound_params, prop,
                   actor_states, isect>>

\* build: the loop over the surfaces that shifts the material links by the
\* sizes of the detector's material store
build_links ==
    /\ BuilderIdle
    /\ ~mat_builder.built
    /\ LET material == det.material_store
       IN  mat_builder' =
               [mat_builder EXCEPT !.surfaces =
                   [k \in 1..Len(@) |->
                       IF @[k].material.id = e_slab
                       THEN update_material(@[k], Len(material[e_slab]))
                       ELSE IF det.n_types = 2 /\ @[k].material.id = e_rod
                       THEN update_material(@[k], Len(material[e_rod]))
                       ELSE @[k]]]
    /\ mat_call' = [op |-> "build", at |-> "append", factory |-> "none",
                    thrown |-> "none",
                    before |-> [builder |-> mat_builder, det |-> det]]
    /\ UNCHANGED <<det, magnetic_field, track, jac_transport, derivative,
                   jac_to_global, bound_covariance, direction, constraint,
                   path_length, step_size, step_data, tolerance,
                   step_size_cutoff, max_rk_step_trials, navigation, pc,
                   locals, ret, entry, hist, bound_ret, bound_params, prop,
                   actor_states, isect>>

\* build: det.append_materials(std::move(m_materials)); what the moved-from
\* container holds is not specified
build_append ==
    /\ mat_call.at = "append"
    /\ det' = [det EXCEPT !.material_store =
                  append_materials(@, mat_builder.m_materials)]
    /\ \E left \in {mat_builder.m_materials, no_materials} :
           mat_builder' = [mat_builder EXCEPT !.m_materials = left]
    /\ mat_call' = [mat_call EXCEPT !.at = "clear"]
    /\ UNCHANGED <<magnetic_field, track, jac_transport, derivative,
                   jac_to_global, bound_covariance, direction, constraint,
                   path_length, step_size, step_data, tolerance,
                   step_size_cutoff, max_rk_step_trials, navigation, pc,
                   locals, ret, entry, hist, bound_ret, bound_params, prop,
                   actor_states, isect>>

\* build: m_materials.clear_all()
build_clear ==
    /\ mat_call.at = "clear"
    /\ mat_builder' = [mat_builder EXCEPT !.m_materials = clear_all(@)]
    /\ mat_call' = [mat_call EXCEPT !.at = "delegate"]
    /\ UNCHANGED <<det, magnetic_field, track, jac_transport, derivative,
                   jac_to_global, bound_covariance, direction, constraint,
                   path_length, step_size, step_data, tolerance,
                   step_size_cutoff, max_rk_step_trials, navigation, pc,
                   locals, ret, entry, hist, bound_ret, bound_params, prop,
                   actor_states, isect>>

\* build: return volume_decorator::build(det, ctx)
build_delegate ==
    /\ mat_call.at = "delegate"
    /\ det' = decorated_build(det, mat_builder.surfaces)
    /\ mat_builder' = [mat_builder EXCEPT !.built = TRUE]
    /\ mat_call' = [mat_call EXCEPT !.at = "idle"]
    /\ UNCHANGED <<magnetic_field, track, jac_transport, derivative,
                   jac_to_global, bound_covariance, direction, constraint,
                   path_length, step_size, step_data, tolerance,
                   step_size_cutoff, max_rk_step_trials, navigation, pc,
                   locals, ret, entry, hist, bound_ret, bound_params, prop,
                   actor_states, isect>>

\* a material that was in the detector before the volumes of the model
old_material == [of |-> <<0 - 1, 0>>]

\* the material stores of the detectors: empty, or with a slab, or with a
\* slab and a rod when the container has two material types
Detectors ==
    {[volumes |-> 0, surfaces |-> <<>>, n_types |-> 1,
      material_store |-> no_materials],
     [volumes |-> 0, surfaces |-> <<>>, n_types |-> 1,
      material_store |-> [e_slab |-> <<old_material>>, e_rod |-> <<>>]],
     [volumes |-> 0, surfaces |-> <<>>, n_types |-> 2,
      material_store |-> [e_slab |-> <<old_material>>,
                          e_rod |-> <<old_material>>]]}

\* a detector with or without material in its store and the builder of its
\* next volume
InitMat ==
    /\ InitStepper
    /\ magnetic_field = "zero"
    /\ track.qop = 0
    /\ constraint.accuracy = ScalarMax
    /\ tolerance = 500
    /\ max_rk_step_trials = 0
    /\ mat_builder = [surfaces |-> <<>>, m_materials |-> no_materials,
                      built |-> FALSE]
    /\ det \in Detectors
    /\ mat_call = [op |-> "construct", at |-> "idle", factory |-> "none",
                   thrown |-> "none",
                   before |-> [builder |-> mat_builder, det |-> det]]

NextMat ==
    \/ new_material_builder
    \/ \E type \in SurfaceTypes, factory \in Factories :
           add_surfaces(type, factory)
    \/ add_material
    \/ build_links
    \/ build_append
    \/ build_clear
    \/ build_delegate

SpecMat == InitMat /\ [][NextMat]_vars

\* ------------------------------------------------------------------------
\* Type and sanity
\* ------------------------------------------------------------------------
Positions == {"idle", "begin", "try", "rescale", "direction", "constraints",
              "derivative", "track", "jacobian", "policy"}

TypeOK ==
    /\ pc \in Positions
    /\ ret \in {"none", "true", "false"}
    /\ direction \in {e_forward, e_backward}
    /\ accepted \in BOOLEAN
    /\ n_step_trials \in Nat


\* ------------------------------------------------------------------------
\* Vocabulary of the properties
\* ------------------------------------------------------------------------
\* the latest call has returned
Returned == pc = "idle" /\ hist.calls > 0

\* the latest call has left the retry loop without abort and not yet returned
PastLoop == pc \in {"direction", "constraints", "derivative", "track",
                    "jacobian", "policy"}

\* the tightest step constraint
TightestConstraint ==
    LET c == constraint
    IN  CHOOSE m \in {c.accuracy, c.actor, c.aborter, c.user} :
            \A x \in {c.accuracy, c.actor, c.aborter, c.user} : m <= x

\* a direction of unit norm, up to the precision of a scalar
UnitNorm(v) ==
    LET n2 == v[1] * v[1] + v[2] * v[2] + v[3] * v[3]
    IN  (S - 2) * (S - 2) <= n2 /\ n2 <= (S + 2) * (S + 2)

\* ------------------------------------------------------------------------
\* C1: step returns false only when navigation.abort() was called in that
\* call; every other call returns true after position, direction, path length
\* and jacobian transport were advanced exactly once each.
\* ------------------------------------------------------------------------
C1_ReturnContract ==
    Returned =>
        /\ ret \in {"true", "false"}
        /\ ret = "false" =>
              /\ hist.aborts = 1
              /\ navigation.status = "abort"
              /\ hist.adv_track = 0 /\ hist.adv_jacobian = 0
        /\ hist.aborts = 0 => ret = "true"
        /\ ret = "true" =>
              /\ hist.aborts = 0
              /\ hist.adv_track = 1 /\ hist.adv_jacobian = 1
              /\ path_length = entry.path_length + step_size
              /\ track.pos =
                    VAdd(VAdd(entry.track.pos, VScale(step_size, entry.track.dir)),
                         VScale(Quot(Mul(step_size, step_size), 6 * S),
                                VAdd(VAdd(step_data.k1, step_data.k2), step_data.k3)))
              /\ jac_transport =
                    MatMul(transport_matrix(track, step_data, step_size),
                           entry.jac_transport, e_free_size)

\* a second call that aborts after a first call that returned true
C1_Witness ==
    /\ Returned /\ ret = "false" /\ hist.calls = 2 /\ hist.aborts = 1
    /\ path_length # 0

\* ------------------------------------------------------------------------
\* C2: a trial of size h is accepted iff err <= tolerance, where
\* err = max(norm(h^2 * (k1 - k2 - k3 + k4)), 1e-20); err is never below
\* 1e-20; the retry loop is left without abort only after an accepted trial.
\* ------------------------------------------------------------------------
C2_Acceptance ==
    hist.trials > 0 =>
        LET sd == step_data
            h2 == Mul(trial_h, trial_h)
            n  == Norm(<<Mul(h2, sd.k1[1] - sd.k2[1] - sd.k3[1] + sd.k4[1]),
                         Mul(h2, sd.k1[2] - sd.k2[2] - sd.k3[2] + sd.k4[2]),
                         Mul(h2, sd.k1[3] - sd.k2[3] - sd.k3[3] + sd.k4[3])>>)
        IN  /\ error_estimate = (IF n > ErrFloor THEN n ELSE ErrFloor)
            /\ error_estimate >= ErrFloor
            /\ accepted <=> (error_estimate <= tolerance)
            /\ (PastLoop \/ (Returned /\ ret = "true")) => accepted
            /\ pc = "rescale" => ~accepted

\* a trial accepted with the error estimate exactly at the tolerance, after
\* a rejected one
C2_Witness ==
    /\ PastLoop /\ accepted /\ error_estimate = tolerance
    /\ hist.rejected > 0

\* ------------------------------------------------------------------------
\* C3: after every rejected trial the step size is multiplied by
\* clamp((tolerance / (2 * err))^(1/4), 0.25, 4), err being the estimate of
\* the trial just rejected, and the next trial uses the scaled step size.
\* ------------------------------------------------------------------------
C3_Rescaling ==
    [][ /\ pc = "rescale" =>
              LET r == Sqrt(Sqrt(Quot(tolerance, 2 * error_estimate)))
                  f == IF r < S \div 4 THEN S \div 4
                       ELSE IF r > 4 * S THEN 4 * S ELSE r
              IN  /\ trial_h = step_size
                  /\ step_size_scaling' = f
                  /\ step_size' = Mul(step_size, f)
        /\ pc = "try" => trial_h' = step_size
      ]_vars

\* a retry after a rescaling that neither clamp decided
C3_Witness ==
    /\ pc = "try" /\ n_step_trials > 0
    /\ step_size_scaling > S \div 4 /\ step_size_scaling < 4 * S
    /\ step_size # trial_h

\* ------------------------------------------------------------------------
\* C4: step signals navigation.abort() and stops, without throwing, when the
\* rescaled step size satisfies |h| < |step_size_cutoff| or when the number
\* of rejected trials exceeds max_rk_step_trials; both failures are reported
\* through that abort signal and nothing else.
\* ------------------------------------------------------------------------
\* the claim as stated
C4_AbortWhenRejectedExceedsMax ==
    [][ pc = "rescale" =>
            ((Abs(step_size') < Abs(step_size_cutoff)
                \/ hist.rejected > max_rk_step_trials)
             => navigation'.status = "abort" /\ ret' = "false")
      ]_vars

\* as amended: the count that is compared is the number of retries already
\* made, one less than the number of rejected trials
C4_AbortSignal ==
    [][ pc = "rescale" =>
            /\ hist.rejected = n_step_trials + 1
            /\ (Abs(step_size') < Abs(step_size_cutoff)
                  \/ hist.rejected > max_rk_step_trials + 1)
               <=> (navigation'.status = "abort" /\ ret' = "false")
            /\ navigation'.status = "abort" =>
                  /\ pc' = "idle"
                  /\ navigation'.heartbeat = FALSE
                  /\ hist'.aborts = 1
                  /\ UNCHANGED <<track, path_length, jac_transport, derivative>>
            /\ navigation'.status # "abort" =>
                  /\ pc' = "try" /\ ret' = ret /\ navigation' = navigation
      ]_vars

\* a call aborted for too many trials with the step size above the cutoff
C4_Witness ==
    /\ Returned /\ ret = "false" /\ navigation.status = "abort"
    /\ Abs(step_size) >= Abs(step_size_cutoff)
    /\ hist.rejected = max_rk_step_trials + 2

\* a measure of what is left of a call: every statement of step lowers it
Rank ==
    CASE pc = "begin"       -> 2 * (max_rk_step_trials + 3) + 10
      [] pc = "try"         -> 2 * (max_rk_step_trials + 2 - hist.trials) + 8
      [] pc = "rescale"     -> 2 * (max_rk_step_trials + 2 - hist.trials) + 9
      [] pc = "direction"   -> 6
      [] pc = "constraints" -> 5
      [] pc = "derivative"  -> 4
      [] pc = "track"       -> 3
      [] pc = "jacobian"    -> 2
      [] pc = "policy"      -> 1
      [] pc = "idle"        -> 0

\* ------------------------------------------------------------------------
\* C5: every call of step terminates; the number of RK trial evaluations in
\* one call never exceeds max_rk_step_trials + 2.
\* ------------------------------------------------------------------------
C5_BoundedTrials ==
    /\ [](/\ hist.trials <= max_rk_step_trials + 2
          /\ n_step_trials <= max_rk_step_trials + 1
          /\ Rank >= 0)
    /\ [][pc # "idle" => Rank' < Rank]_vars

\* a call that used all max_rk_step_trials + 2 trials
C5_Witness ==
    /\ Returned /\ hist.trials = max_rk_step_trials + 2
    /\ max_rk_step_trials > 0

\* ------------------------------------------------------------------------
\* C6: whenever step returns true, the step size applied to the track
\* satisfies |step_size| <= |constraints().size(direction)|.
\* ------------------------------------------------------------------------
C6_StepWithinConstraint ==
    (pc \in {"derivative", "track", "jacobian", "policy"}
        \/ (Returned /\ ret = "true")) =>
        /\ Abs(step_size) <= TightestConstraint
        /\ hist.adv_track = 1 => hist.applied_h = step_size

\* a successful step whose accepted step size was cut to the constraint
C6_Witness ==
    /\ Returned /\ ret = "true" /\ hist.clamped
    /\ Abs(hist.accepted_h) > TightestConstraint
    /\ Abs(hist.applied_h) = TightestConstraint

\* ------------------------------------------------------------------------
\* C7: the first trial step size of each call is bounded both by the
\* navigator's distance to the next candidate and by any active step-size
\* constraint.
\* ------------------------------------------------------------------------
C7_FirstTrialBounded ==
    hist.trials > 0 =>
        /\ Abs(hist.first_h) <= Abs(navigation.dist)
        /\ Abs(hist.first_h) <= TightestConstraint

\* ------------------------------------------------------------------------
\* C8: advance_track sets pos' = pos + h*dir + h^2/6*(k1+k2+k3),
\* dir' = normalize(dir + h/6*(k1+2*(k2+k3)+k4)), path_length' =
\* path_length + h, and changes nothing else of the stepper state.
\* ------------------------------------------------------------------------
C8_AdvanceTrack ==
    [][ pc = "track" =>
            LET h  == step_size
                sd == step_data
                p  == track.pos
                d  == track.dir
                c1 == Quot(Mul(h, h), 6 * S)
                c2 == Quot(h, 6 * S)
                u  == [i \in 1..3 |->
                         d[i] + Mul(c2, sd.k1[i] + Mul(2 * S, sd.k2[i] + sd.k3[i])
                                          + sd.k4[i])]
            IN  /\ \A i \in 1..3 :
                      track'.pos[i] =
                          p[i] + Mul(h, d[i]) + Mul(c1, sd.k1[i] + sd.k2[i] + sd.k3[i])
                /\ track'.dir = Normalize(<<u[1], u[2], u[3]>>)
                /\ path_length' = path_length + h
                /\ track'.qop = track.qop /\ track'.time = track.time
                /\ UNCHANGED <<jac_transport, derivative, jac_to_global,
                               bound_covariance, constraint, direction,
                               step_size, step_data, tolerance,
                               step_size_cutoff, max_rk_step_trials>>
      ]_vars

\* the track advanced along a curved step
C8_Witness ==
    /\ pc = "jacobian" /\ hist.adv_track = 1
    /\ step_data.k1 # Zero3 /\ step_data.k4 # step_data.k1
    /\ track.dir # entry.track.dir /\ track.pos # entry.track.pos

\* ------------------------------------------------------------------------
\* C9: after every step that returns true the track direction has unit norm,
\* for any sequence of steps started from a unit-norm direction.
\* ------------------------------------------------------------------------
C9_UnitDirection ==
    /\ UnitNorm(entry.track.dir)
    /\ (Returned /\ ret = "true") => UnitNorm(track.dir)

\* a second successful step in a field that turned the direction twice
C9_Witness ==
    /\ Returned /\ ret = "true" /\ hist.calls = 2
    /\ track.dir # entry.track.dir
    /\ entry.track.dir \notin StartDirs

\* ------------------------------------------------------------------------
\* C10: after a successful step the stepping direction is forward iff the
\* accepted step size is >= 0 and backward otherwise, and the path length
\* changes by exactly the applied step size: over forward steps it never
\* decreases, over backward steps it never increases.
\* ------------------------------------------------------------------------
C10_DirectionAndPath ==
    (Returned /\ ret = "true") =>
        /\ direction = e_forward <=> hist.accepted_h >= 0
        /\ direction = e_backward <=> hist.accepted_h < 0
        /\ path_length = entry.path_length + hist.applied_h
        /\ direction = e_forward => path_length >= entry.path_length
        /\ direction = e_backward => path_length <= entry.path_length

\* a backward step after a forward step
C10_Witness ==
    /\ Returned /\ ret = "true" /\ hist.calls = 2
    /\ direction = e_backward /\ entry.direction = e_forward
    /\ path_length < entry.path_length /\ entry.path_length > 0

\* the product Dn * ... * D1 of the increments <<D1, ..., Dn>>
RECURSIVE ProductOf(_)
ProductOf(Ds) ==
    IF Ds = <<>> THEN Identity(e_free_size)
    ELSE MatMul(Ds[Len(Ds)], ProductOf(SubSeq(Ds, 1, Len(Ds) - 1)), e_free_size)

\* the 8 x 8 identity with the four blocks of one step put in
IncrementOf(b) ==
    CHOOSE D \in {[i \in 0..7 |-> [j \in 0..7 |->
                     IF i \in 0..2 /\ j \in 4..6 THEN c.dFdT[i][j - 4]
                     ELSE IF i \in 0..2 /\ j = 7 THEN c.dFdL[i + 1]
                     ELSE IF i \in 4..6 /\ j \in 4..6 THEN c.dGdT[i - 4][j - 4]
                     ELSE IF i \in 4..6 /\ j = 7 THEN c.dGdL[i - 3]
                     ELSE IF i = j THEN S ELSE 0]] : c \in {b}} : TRUE

\* ------------------------------------------------------------------------
\* C11: advance_jacobian replaces jac_transport by D * jac_transport (left
\* multiplication), D being the 8 x 8 identity with block (0,4) = dFdT,
\* column block (0,7) = dFdL, block (4,4) = dGdT and column block (4,7) =
\* dGdL; after n successful steps with increments D1..Dn from an identity
\* start, jac_transport = Dn * ... * D1.
\* ------------------------------------------------------------------------
C11_LeftMultiplication ==
    /\ [](pc = "policy" => jac_transport = ProductOf(hist.increments))
    /\ [][ pc = "jacobian" =>
              \E D \in {IncrementOf(jacobian_blocks(track, step_data, step_size))} :
                  /\ hist'.increments = Append(hist.increments, D)
                  /\ \A i, j \in 0..7 :
                        jac_transport'[i][j] =
                            Mul(D[i][0], jac_transport[0][j])
                          + Mul(D[i][1], jac_transport[1][j])
                          + Mul(D[i][2], jac_transport[2][j])
                          + Mul(D[i][3], jac_transport[3][j])
                          + Mul(D[i][4], jac_transport[4][j])
                          + Mul(D[i][5], jac_transport[5][j])
                          + Mul(D[i][6], jac_transport[6][j])
                          + Mul(D[i][7], jac_transport[7][j])
      ]_vars

\* two successful steps whose increments do not commute
C11_Witness ==
    /\ Returned /\ ret = "true" /\ Len(hist.increments) = 2
    /\ jac_transport = MatMul(hist.increments[2], hist.increments[1], e_free_size)
    /\ jac_transport # MatMul(hist.increments[1], hist.increments[2], e_free_size)

\* the stages of every trial vanish: no field, or no charge over momentum
StraightCase ==
    /\ magnetic_field = "zero" \/ track.qop = 0
    /\ tolerance >= ErrFloor

\* the transport matrix of the latest successful step
LastIncrement == hist.increments[Len(hist.increments)]

\* D is the identity plus the translation block h * I3 at rows 0-2, columns
\* 4-6, apart from the entries of column 7 that `free` leaves open
TranslationOnly(D, h, free) ==
    \A i, j \in 0..7 :
        \/ <<i, j>> \in free
        \/ D[i][j] = (IF i \in 0..2 /\ j = i + 4 THEN h
                      ELSE IF i = j THEN S ELSE 0)

\* the column blocks (0,7) and (4,7) of D
ColumnL == {<<i, 7>> : i \in {0, 1, 2, 4, 5, 6}}

\* what C12 says of the trials and of the track
StraightTrack ==
    /\ hist.rejected = 0 /\ pc # "rescale"
    /\ hist.trials > 0 => accepted /\ hist.trials = 1
    /\ Returned =>
          /\ ret = "true"
          /\ track.dir = entry.track.dir
          /\ \A i \in 1..3 :
                track.pos[i] =
                    entry.track.pos[i] + Mul(step_size, entry.track.dir[i])

\* ------------------------------------------------------------------------
\* C12: with a zero magnetic field (or qop = 0) and tolerance >= 1e-20, step
\* accepts the first trial without any rescaling, moves the position to
\* pos + h*d with the direction unchanged, and the transport increment D is
\* the identity plus the single translation block h*I3 at rows 0-2, columns
\* 4-6 (dGdT = I3, dFdL = dGdL = 0).
\* ------------------------------------------------------------------------
\* the claim as stated
C12_StraightStepNoColumnL ==
    StraightCase =>
        /\ StraightTrack
        /\ (Returned /\ ret = "true") =>
              TranslationOnly(LastIncrement, step_size, {})

\* as amended: dFdL = dGdL = 0 in a zero field only; with qop = 0 in a field
\* the column of the derivatives with respect to qop is left open
C12_StraightStep ==
    StraightCase =>
        /\ StraightTrack
        /\ (Returned /\ ret = "true") =>
              TranslationOnly(LastIncrement, step_size,
                              IF magnetic_field = "zero" THEN {} ELSE ColumnL)

\* a second straight step through a field with qop = 0, cut to the
\* constraint, whose increment has a dFdL that is not zero
C12_Witness ==
    /\ StraightCase /\ Returned /\ ret = "true" /\ hist.calls = 2
    /\ magnetic_field # "zero" /\ track.qop = 0
    /\ step_size # 0 /\ hist.clamped
    /\ track.pos # entry.track.pos
    /\ \E i \in 0..2 : LastIncrement[i][7] # 0

\* two vectors equal up to one unit of the last place of a scalar
Close(u, v) == \A i \in 1..3 : Abs(u[i] - v[i]) <= 1

\* ------------------------------------------------------------------------
\* C13: the vectors dk1dL..dk4dL built by advance_jacobian are the
\* derivatives with respect to qop of the stages k1..k4 of the accepted
\* trial: they are evaluated with the same track direction and the same step
\* size from which k1..k4 were evaluated, so that qop * dk1dL = k1.
\* ------------------------------------------------------------------------
C13_StageDerivatives ==
    hist.adv_jacobian = 1 =>
        /\ hist.blocks.dir = entry.track.dir
        /\ hist.blocks.h = hist.accepted_h
        /\ Close(VScale(track.qop, hist.blocks.dk1dL), step_data.k1)

\* ------------------------------------------------------------------------
\* C15: rk_stepper::bound_state returns default-constructed bound track
\* parameters for every propagation state and transform, and leaves the
\* whole propagation state unchanged (track, bound covariance,
\* jac_to_global, jac_transport and derivative are neither read nor reset).
\* ------------------------------------------------------------------------
C15_BoundStateDisabled ==
    /\ [](bound_ret.called => bound_ret.value = DefaultBound)
    /\ [][ bound_ret' # bound_ret =>
              /\ bound_ret'.called /\ bound_ret'.value = DefaultBound
              /\ UNCHANGED <<magnetic_field, track, jac_transport, derivative,
                             jac_to_global, bound_covariance, direction,
                             constraint, path_length, step_size, step_data,
                             tolerance, step_size_cutoff, max_rk_step_trials,
                             navigation, pc, locals, ret, entry, hist,
                             bound_params, prop, actor_states, isect>>
      ]_vars

\* bound_state called after two steps, with an accumulated jacobian and a
\* derivative that stay as they are
C15_Witness ==
    /\ bound_ret.called /\ bound_ret.trf3 # <<0, 0, 0>>
    /\ pc = "idle" /\ ret = "true" /\ hist.calls = 2
    /\ jac_transport # Identity(e_free_size)
    /\ derivative # ZeroMat(e_free_size, 1)

\* ------------------------------------------------------------------------
\* C14: once the jacobian of a leg has been consumed for the bound update at
\* a surface and the actor chain has run, jac_transport is the identity and
\* the path derivative is zero, and they stay so until the first step of
\* the next leg, as in a freshly constructed state
\* ------------------------------------------------------------------------
ChainDone == prop.at \in {"check", "update", "step", "done"}

C14_ResetAfterUpdate ==
    /\ (prop.at # "off" /\ hist.calls = 0 /\ pc = "idle") =>
           /\ jac_transport = Identity(e_free_size)
           /\ derivative = ZeroMat(e_free_size, 1)
    /\ (actor_states.chain # <<>> /\ actor_states.transporter.updated
           /\ ChainDone) =>
           /\ jac_transport = Identity(e_free_size)
           /\ derivative = ZeroMat(e_free_size, 1)
           /\ hist.increments = <<>>

\* the stepper is about to start a leg after the update that consumed the
\* jacobian of a leg of Runge-Kutta steps in the field
C14_Witness ==
    /\ prop.at = "step"
    /\ prop.stepper = "rk"
    /\ magnetic_field = "const"
    /\ actor_states.transporter.updated
    /\ actor_states.transporter.updates = 3
    /\ actor_states.transporter.steps = 2
    /\ jac_transport = Identity(e_free_size)
    /\ bound_covariance # bound_cov0
    /\ prop.from_bound

\* ------------------------------------------------------------------------
\* C16: with a path limit L propagate() ends returning false with a path
\* length below L + epsilon; the same propagation with an unlimited aborter
\* ends returning true
\* ------------------------------------------------------------------------
\* 5e-4 mm, rounded up to the resolution of the scalars
epsilon == 1

Limited == actor_states.pathlimit.limit = path_limit

\* the stepper configuration of the test: default tolerance, no accuracy
\* constraint
AsInTheTest == tolerance = 500 /\ constraint.accuracy = ScalarMax

\* every step of the loop lowers this rank, so the loop ends
LoopRank ==
    (max_iterations - prop.iterations) * 100
    + (CASE prop.at = "update" -> 90
         [] prop.at = "step" -> 80
         [] prop.at = "actor" -> 10 - prop.actor
         [] prop.at = "check" -> 1
         [] OTHER -> 0)
    + (IF prop.at = "actor" /\ pc # "idle" THEN 10 + Rank ELSE 0)

C17_LoopEnd ==
    /\ [](prop.at = "done" =>
             /\ prop.result \in {"true", "false"}
             /\ prop.result = "true" <=> navigation.status = "exit"
             /\ prop.result = "false" =>
                    \/ navigation.status = "abort"
                    \/ prop.iterations >= max_iterations)
    /\ [][(prop.at # "off" /\ prop.at # "done" /\ prop'.at = "done") =>
             /\ prop.at = "check"
             /\ \/ navigation.status \in {"exit", "abort"}
                \/ prop'.iterations >= max_iterations]_vars
    /\ [](prop.at # "off" /\ pc = "idle" /\ ret = "false" =>
             navigation.status = "abort")
    /\ [][(prop.at # "off" /\ navigation.status = "abort") =>
             /\ navigation'.status = "abort"
             /\ pc' = "idle"
             /\ hist'.calls = hist.calls
             /\ track' = track
             /\ path_length' = path_length
             /\ prop.at = "check" => prop'.at = "done" /\ prop'.result = "false"
             /\ prop.at # "check" => prop'.iterations = prop.iterations]_vars

\* the stepper aborted during a later step of the propagation, and the
\* loop ended with false
C17_Witness ==
    /\ prop.at = "done"
    /\ prop.result = "false"
    /\ navigation.status = "abort"
    /\ hist.aborts = 1
    /\ ~Limited

\* ------------------------------------------------------------------------
\* C18: with the straight line stepper, the parameter transporter and the
\* parameter resetter, a bound state with zero variance of phi and theta
\* keeps every element of its covariance across the planes of the
\* telescope, and ends attached to the last plane before the end of the
\* world, not to the plane of departure
\* ------------------------------------------------------------------------
last_module == Len(plane_positions) - 2

C18_CovarianceRoundTrip ==
    (prop.at # "off" /\ prop.stepper = "line" /\ prop.from_bound) =>
        /\ bound_params.covariance = bound_cov0
        /\ bound_covariance = bound_cov0
        /\ (prop.at = "done" /\ prop.result = "true") =>
               /\ bound_params.surface_link = last_module
               /\ bound_params.surface_link > 0

\* the propagation of the bound state reached the end of the world
C18_Witness ==
    /\ prop.at = "done"
    /\ prop.result = "true"
    /\ prop.stepper = "line"
    /\ prop.from_bound
    /\ actor_states.transporter.updates = Len(plane_positions) - 1
    /\ bound_params.surface_link = 5
    /\ bound_params.vector.local # <<0, 0>>
    /\ bound_params.covariance = bound_cov0

\* ------------------------------------------------------------------------
\* C20: unmasked::check_boundaries is true for every bounds value, local
\* point and tolerance, so each hit of a trajectory on an unmasked plane has
\* status inside
\* ------------------------------------------------------------------------
LocalPoints == {<<x, y>> : x \in {0 - 7000, 0 - 1000, 0, 3001},
                          y \in {0 - 1000, 0, 9000}}

C20_UnmaskedAlwaysInside ==
    /\ \A b \in MaskBounds, p \in LocalPoints, t \in MaskTolerances :
           unmasked_check_boundaries(b, p, t)
    /\ (isect.called /\ isect.mask.shape = "unmasked") =>
           \A i \in 1..Len(isect.hits) : isect.hits[i].status = "inside"

\* a hit on an unmasked plane at a local point that a rectangle with the
\* same values would put outside
C20_Witness ==
    /\ isect.called
    /\ isect.mask.shape = "unmasked"
    /\ Len(isect.hits) = 1
    /\ isect.hits[1].status = "inside"
    /\ ~rectangle2_check_boundaries(isect.mask.values, isect.hits[1].p2,
                                    isect.tol)

\* ------------------------------------------------------------------------
\* C23: one call of step samples the field once at the start position and
\* twice per trial, at the midpoint and at the endpoint; the one midpoint
\* sample serves k2 and k3; the call makes 1 + 2 * trials samples
\* ------------------------------------------------------------------------
InCall == pc # "idle" /\ pc # "begin"

\* the stages of the latest trial, evaluated from the samples in step_data
StagesFromSamples ==
    LET half_h == Mul(trial_h, S \div 2)
        smp == trial_samples(magnetic_field, track, step_data, trial_h)
    IN  /\ step_data.b_middle = get_field(magnetic_field, smp[1])
        /\ step_data.b_last = get_field(magnetic_field, smp[2])
        /\ step_data.k2 = evaluate_k(track, step_data.b_middle, 1, half_h,
                                     step_data.k1)
        /\ step_data.k3 = evaluate_k(track, step_data.b_middle, 2, half_h,
                                     step_data.k2)
        /\ step_data.k4 = evaluate_k(track, step_data.b_last, 3, trial_h,
                                     step_data.k3)

C23_FieldSamples ==
    /\ [](InCall \/ Returned => hist.samples = 1 + 2 * hist.trials)
    /\ [](pc \in {"try", "rescale", "direction"} =>
             /\ step_data.b_first = get_field(magnetic_field, track.pos)
             /\ step_data.k1 = evaluate_k(track, step_data.b_first, 0, 0, Zero3))
    /\ [](pc \in {"rescale", "direction"} => StagesFromSamples)
    /\ [][hist'.trials = hist.trials + 1 =>
             /\ hist'.samples = hist.samples + 2
             /\ step_data'.b_first = step_data.b_first]_vars

\* a call with three trials in the field with a gradient: seven samples,
\* midpoint and endpoint fields differ
C23_Witness ==
    /\ Returned
    /\ magnetic_field = "grad"
    /\ hist.trials = 3
    /\ hist.samples = 7
    /\ step_data.b_middle # step_data.b_last

\* ------------------------------------------------------------------------
\* C24: a successful step runs, in this order, the direction flag update,
\* the constraint clamp, advance_derivative, advance_track,
\* advance_jacobian and the navigation update policy; the policy runs
\* once, after track and jacobian were advanced, and never in a call that
\* aborts
\* ------------------------------------------------------------------------
\* the operations of the call that have run so far
Done(d, t, j, p) ==
    /\ hist.adv_derivative = d
    /\ hist.adv_track = t
    /\ hist.adv_jacobian = j
    /\ hist.policy = p

C24_OperationOrder ==
    /\ [](pc \in {"try", "rescale", "direction", "constraints"}
             => Done(0, 0, 0, 0))
    /\ [](Returned => IF ret = "true" THEN Done(1, 1, 1, 1)
                                      ELSE Done(0, 0, 0, 0))
    /\ [][direction' # direction =>
             pc = "direction" /\ pc' = "constraints" /\ accepted]_vars
    /\ [][pc = "constraints" =>
             /\ direction = direction_of(trial_h)
             /\ step_size' = constrained(step_size, constraint, direction)
             /\ pc' = "derivative"]_vars
    /\ [][hist'.adv_derivative = hist.adv_derivative + 1 =>
             pc = "derivative" /\ Done(0, 0, 0, 0) /\ pc' = "track"]_vars
    /\ [][hist'.adv_track = hist.adv_track + 1 =>
             pc = "track" /\ Done(1, 0, 0, 0) /\ pc' = "jacobian"]_vars
    /\ [][hist'.adv_jacobian = hist.adv_jacobian + 1 =>
             pc = "jacobian" /\ Done(1, 1, 0, 0) /\ pc' = "policy"]_vars
    /\ [][hist'.policy = hist.policy + 1 =>
             /\ pc = "policy" /\ Done(1, 1, 1, 0)
             /\ navigation' = navigation_policy(navigation)
             /\ ret' = "true" /\ pc' = "idle"]_vars

\* a backward step that was clamped has returned true
C24_Witness ==
    /\ Returned /\ ret = "true"
    /\ direction = e_backward
    /\ hist.clamped
    /\ Done(1, 1, 1, 1)
    /\ navigation.trust = "high"

\* ------------------------------------------------------------------------
\* C26: every rejected trial strictly lowers the magnitude of the step
\* size: the scaling lies in [0.25, 2^(-1/4)), the upper clamp 4 never
\* decides, and after k rejections |h| lies between 0.25^k and 2^(-k/4)
\* times its initial value, with its sign unchanged
\* ------------------------------------------------------------------------
\* 2^(-1/4), rounded up, and the lower clamp
UpperScaling == 841
LowerScaling == S \div 4

RECURSIVE Power(_, _)
Power(f, k) == IF k = 0 THEN S ELSE Mul(Power(f, k - 1), f)

Sign(x) == IF x > 0 THEN 1 ELSE IF x < 0 THEN -1 ELSE 0

\* the scaling of a rejected trial and the step sizes after k rejections
ScalingBounds ==
    /\ [][pc = "rescale" =>
             /\ error_estimate > tolerance
             /\ step_size_scaling' >= LowerScaling
             /\ step_size_scaling' <= UpperScaling
             /\ step_size_scaling' # 4 * S
             /\ Sign(step_size') = Sign(step_size)]_vars
    /\ []((hist.trials > 0 /\
            (pc \in {"try", "direction"} \/ (Returned /\ ret = "false"))) =>
             LET k == hist.rejected
             IN  /\ Abs(step_size) <= Mul(Abs(hist.first_h), Power(UpperScaling, k)) + k
                 /\ Abs(step_size) >= Mul(Abs(hist.first_h), Power(LowerScaling, k)) - k)

C26_StrictDecrease ==
    /\ ScalingBounds
    /\ [][pc = "rescale" => Abs(step_size') < Abs(step_size)]_vars

\* C26, amended: as above, for step sizes other than zero; a step size of
\* zero stays zero
C26_DecreaseUnlessZero ==
    /\ ScalingBounds
    /\ [][pc = "rescale" =>
             IF step_size = 0 THEN step_size' = 0
             ELSE Abs(step_size') < Abs(step_size)]_vars

\* the second rescaling of a call, neither by the lower clamp
C26_Witness ==
    /\ pc = "try"
    /\ hist.rejected = 2
    /\ step_size_scaling > LowerScaling
    /\ step_size # 0
    /\ Abs(step_size) < Abs(trial_h)
    /\ Abs(trial_h) < Abs(hist.first_h)

\* ------------------------------------------------------------------------
\* C27: when step ends by calling navigation.abort(), position, direction,
\* qop, path length, jac_transport, derivative and direction flag are what
\* they were before the call; only the step size and the step data may
\* differ
\* ------------------------------------------------------------------------
C27_AbortLeavesState ==
    /\ []((Returned /\ ret = "false") =>
             /\ navigation.status = "abort"
             /\ track = entry.track
             /\ path_length = entry.path_length
             /\ jac_transport = entry.jac_transport
             /\ derivative = entry.derivative
             /\ direction = entry.direction)
    /\ [][(pc = "try" \/ pc = "rescale") =>
             (UNCHANGED <<track, path_length, jac_transport, derivative,
                          direction, jac_to_global, bound_covariance,
                          constraint, tolerance, step_size_cutoff,
                          max_rk_step_trials>>)]_vars

\* a backward step aborts after a step that advanced track and jacobian;
\* step size and step data are not those of the first step
C27_Witness ==
    /\ Returned /\ ret = "false"
    /\ hist.calls = 2
    /\ step_size > 0
    /\ direction = e_backward
    /\ entry.jac_transport # Identity(e_free_size)
    /\ entry.path_length # 0
    /\ step_data.k2 # step_data.k1

\* ------------------------------------------------------------------------
\* C28: in every successful step the step size that advance_track and
\* advance_jacobian apply is the step size for which the stages k2..k4, the
\* field samples b_middle, b_last and the accepted error estimate were
\* evaluated, that is the argument of the accepted try_rk4 call.
\* ------------------------------------------------------------------------
C28_AppliedIsAccepted ==
    /\ hist.adv_track = 1 => hist.applied_h = hist.accepted_h
    /\ hist.adv_jacobian = 1 => hist.blocks.h = hist.accepted_h
    /\ (Returned /\ ret = "true") =>
          /\ hist.accepted_h = trial_h
          /\ step_size = trial_h

\* the rows of the time and of qop
FixedRows == {e_free_time, e_free_qoverp}

\* the entries of a transport matrix that a step may set: rows 0-2 and 4-6
\* of columns 4-7
StepEntries == {<<i, j>> : i \in {0, 1, 2, 4, 5, 6}, j \in 4..7}

PointsOf(hit) == [p3 |-> hit.p3, p2 |-> hit.p2, path |-> hit.path]

\* the local point lies within the bounds of the mask; an unmasked plane has
\* no bounds
WithinBounds(mask, loc_p) ==
    \/ mask.shape = "unmasked"
    \/ /\ mask.shape = "rectangle2"
       /\ 0 - mask.values[1] <= loc_p[1] /\ loc_p[1] <= mask.values[1]
       /\ 0 - mask.values[2] <= loc_p[2] /\ loc_p[2] <= mask.values[2]

AddDone == mat_call.op \in SurfaceTypes /\ mat_call.at = "idle"

\* the surfaces of the volume once the decorated builder has added those of
\* the factory of the running call
WithFactorySurfaces ==
    decorated_add(mat_call.before.builder.surfaces, mat_call.op,
                  mat_call.factory, det.volumes)

\* ------------------------------------------------------------------------
\* C22: add_portals, add_sensitives and add_passives add the surfaces of the
\* factory through the decorated builder and then the material; with a
\* factory that is not a material factory the call ends by throwing
\* "Not a material factory" and the material container is as before.
\* ------------------------------------------------------------------------
C22_SurfacesThenMaterial ==
    /\ [](AddDone =>
            IF mat_call.factory.is_material
            THEN LET r == material_factory_call(
                              mat_call.factory, WithFactorySurfaces,
                              mat_call.before.builder.m_materials)
                 IN  /\ mat_call.thrown = "none"
                     /\ mat_builder.surfaces = r.surfaces
                     /\ mat_builder.m_materials = r.materials
                     /\ Len(mat_builder.m_materials[mat_call.factory.id]) =
                            Len(mat_call.before.builder.m_materials[
                                    mat_call.factory.id])
                            + mat_call.factory.n
            ELSE /\ mat_call.thrown = "Not a material factory"
                 /\ mat_builder.m_materials =
                        mat_call.before.builder.m_materials)
    /\ [][(mat_call'.op \in SurfaceTypes
              /\ mat_builder'.m_materials # mat_builder.m_materials) =>
             /\ mat_call.at = "material"
             /\ mat_builder.surfaces = WithFactorySurfaces
             /\ mat_call.factory.is_material]_vars

\* a material factory has added two sensitive surfaces with their slabs to
\* a volume that holds a surface without material and a slab
C22_Witness ==
    /\ AddDone /\ mat_call.op = "sensitive"
    /\ mat_call.factory = [is_material |-> TRUE, n |-> 2, id |-> e_slab]
    /\ mat_call.thrown = "none"
    /\ Len(mat_builder.surfaces) = 3
    /\ mat_builder.surfaces[1].material = no_material
    /\ mat_builder.surfaces[2].material = [id |-> e_slab, index |-> 0]
    /\ mat_builder.surfaces[3].material = [id |-> e_slab, index |-> 1]
    /\ Len(mat_builder.m_materials[e_slab]) = 2

\* what build is to make of the surfaces it finds, given the store it finds
ShiftedLinks(sfs, store, n_types) ==
    [k \in 1..Len(sfs) |->
        IF sfs[k].material.id = e_slab
        THEN [sfs[k] EXCEPT !.material.index = @ + Len(store[e_slab])]
        ELSE IF n_types = 2 /\ sfs[k].material.id = e_rod
        THEN [sfs[k] EXCEPT !.material.index = @ + Len(store[e_rod])]
        ELSE sfs[k]]

\* a call of build has returned
BuildDone == mat_call.op = "build" /\ mat_call.at = "idle"

\* ------------------------------------------------------------------------
\* C25: build shifts the material link of every surface of the volume with
\* a slab by the number of slabs in the detector's material store, and of
\* every surface with a rod by the number of rods when there are two
\* material types; it reads the sizes before the materials of this volume
\* are appended, then appends them, leaves its own container empty, and
\* only then calls build of the decorated builder.
\* ------------------------------------------------------------------------
C25_BuildShiftsLinks ==
    /\ [](BuildDone =>
            LET b  == mat_call.before.builder
                d0 == mat_call.before.det
            IN  /\ det.surfaces =
                       d0.surfaces \o ShiftedLinks(b.surfaces,
                                                   d0.material_store,
                                                   d0.n_types)
                /\ det.material_store =
                       [id \in {e_slab, e_rod} |->
                           d0.material_store[id] \o b.m_materials[id]]
                /\ mat_builder.m_materials = no_materials
                /\ det.volumes = d0.volumes + 1)
    /\ [][det'.material_store # det.material_store =>
             /\ mat_call.at = "append"
             /\ det = mat_call.before.det
             /\ mat_builder.surfaces =
                    ShiftedLinks(mat_call.before.builder.surfaces,
                                 det.material_store, det.n_types)
             /\ mat_builder'.surfaces = mat_builder.surfaces]_vars
    /\ [][det'.volumes # det.volumes =>
             /\ mat_call.at = "delegate"
             /\ mat_builder.m_materials = no_materials
             /\ det.material_store # mat_call.before.det.material_store
                    \/ mat_call.before.builder.m_materials = no_materials
             /\ det'.material_store = det.material_store]_vars

\* in the detector every surface with material is linked to its own material
LinksResolve ==
    \A k \in 1..Len(det.surfaces) :
        LET m == det.surfaces[k].material
        IN  m.id # e_none =>
                /\ m.index + 1 \in 1..Len(det.material_store[m.id])
                /\ det.material_store[m.id][m.index + 1].of =
                       det.surfaces[k].label

\* the second volume is built into a detector that held two slabs and a
\* rod: its slab surface is linked to the third slab, its rod surface to the
\* second rod
C25_Witness ==
    /\ BuildDone /\ det.volumes = 2 /\ det.n_types = 2
    /\ Len(mat_call.before.det.material_store[e_slab]) = 2
    /\ Len(mat_call.before.det.material_store[e_rod]) = 1
    /\ Len(mat_call.before.builder.surfaces) = 2
    /\ mat_call.before.builder.surfaces[1].material =
           [id |-> e_slab, index |-> 0]
    /\ mat_call.before.builder.surfaces[2].material =
           [id |-> e_rod, index |-> 0]
    /\ det.surfaces[2].material = [id |-> e_slab, index |-> 2]
    /\ det.surfaces[3].material = [id |-> e_rod, index |-> 1]
    /\ LinksResolve

\* ------------------------------------------------------------------------
\* C30: in add_portals, add_sensitives and add_passives the add call of the
\* decorated builder runs before the check of the factory's type: when the
\* call throws "Not a material factory" the surfaces of the factory are in
\* the volume already (the call is not atomic on error), and the material
\* container is unchanged.
\* ------------------------------------------------------------------------
C30_NotAtomicOnError ==
    /\ []((AddDone /\ mat_call.thrown = "Not a material factory") =>
            /\ mat_builder.surfaces = WithFactorySurfaces
            /\ Len(mat_builder.surfaces) =
                   Len(mat_call.before.builder.surfaces) + mat_call.factory.n
            /\ mat_builder # mat_call.before.builder
            /\ mat_builder.m_materials = mat_call.before.builder.m_materials)
    /\ [][(mat_call'.thrown = "Not a material factory"
              /\ mat_call.thrown = "none") =>
             /\ mat_call.at = "material"
             /\ ~mat_call.factory.is_material
             /\ mat_builder.surfaces = WithFactorySurfaces
             /\ (UNCHANGED <<mat_builder, det>>)]_vars

\* add_portals has thrown on a volume with a sensitive surface and its
\* slab: the two portals are in the volume, without material
C30_Witness ==
    /\ AddDone /\ mat_call.op = "portal"
    /\ mat_call.thrown = "Not a material factory"
    /\ mat_call.factory.n = 2
    /\ Len(mat_call.before.builder.surfaces) = 1
    /\ Len(mat_builder.surfaces) = 3
    /\ mat_builder.surfaces[1].type = "sensitive"
    /\ mat_builder.surfaces[2].type = "portal"
    /\ mat_builder.surfaces[3].material = no_material
    /\ mat_builder.m_materials[e_slab] # <<>>

====
